---- MODULE Spec2Model ----
(***************************************************************************)
(* Model of the portfolio uploader API (server, the revision with reorder  *)
(* and delete): the three locale catalogs, the asset tree, the write queue *)
(* and the four mutating endpoints.                                        *)
(*                                                                         *)
(* Strings that the code inspects character by character (titles, slugs,   *)
(* asset folder tokens) are sequences of one-character strings.  Relative  *)
(* paths are sequences of segments, "a/b" being <<"a", "b">>; a leading    *)
(* slash is a leading empty segment.                                       *)
(***************************************************************************)
EXTENDS Integers, Sequences, FiniteSets, TLC

\* ------------------------------------------------------------------------
\* Bounds of the model
\* ------------------------------------------------------------------------

\* number of mutating requests issued in one behaviour
MaxRequests == 2

\* ------------------------------------------------------------------------
\* Program constants
\* ------------------------------------------------------------------------

LOCALES == <<"pt", "en", "es">>

LocaleSet == {LOCALES[i] : i \in 1..Len(LOCALES)}

PROJECTS_ASSETS_DIR == <<"assets", "images", "projects">>

PROJECTS_THUMBS_DIR == <<"assets", "images", "projects", "thumbs">>

PROJECTS_FILE_BY_LOCALE ==
  [l \in LocaleSet |->
     CASE l = "pt" -> <<"data", "projects", "projects.json">>
       [] l = "en" -> <<"data", "projects", "projects-en.json">>
       [] l = "es" -> <<"data", "projects", "projects-es.json">>]

\* the extension collectUploadedFilesMap gives every uploaded file
WebpExtension == ".webp"

\* ------------------------------------------------------------------------
\* Characters
\* ------------------------------------------------------------------------

\* "~" stands for a combining mark of U+0300..U+036F, "'" for an accented
\* letter whose canonical decomposition is "a" followed by that mark
Combining == {"~"}

Whitespace == {" "}

NFDChar(c) == IF c = "'" THEN <<"a", "~">> ELSE <<c>>

LowerLetters ==
  <<"a", "b", "c", "d", "e", "f", "g", "h", "i", "j", "k", "l", "m", "n",
    "o", "p", "q", "r", "s", "t", "u", "v", "w", "x", "y", "z">>

UpperLetters ==
  <<"A", "B", "C", "D", "E", "F", "G", "H", "I", "J", "K", "L", "M", "N",
    "O", "P", "Q", "R", "S", "T", "U", "V", "W", "X", "Y", "Z">>

Digits == {"0", "1", "2", "3", "4", "5", "6", "7", "8", "9"}

LowerChar(c) ==
  IF \E i \in 1..Len(UpperLetters) : UpperLetters[i] = c
  THEN LowerLetters[CHOOSE i \in 1..Len(UpperLetters) : UpperLetters[i] = c]
  ELSE c

\* the characters of [A-Za-z0-9]
Alnum ==
  {LowerLetters[i] : i \in 1..Len(LowerLetters)}
    \cup {UpperLetters[i] : i \in 1..Len(UpperLetters)} \cup Digits

\* String.prototype.normalize('NFD')
RECURSIVE NFD(_)
NFD(s) ==
  IF s = << >> THEN << >> ELSE NFDChar(Head(s)) \o NFD(Tail(s))

\* String.prototype.toLowerCase
ToLowerCase(s) == [i \in 1..Len(s) |-> LowerChar(s[i])]

\* replace(/X+/g, r): every maximal run of characters of X becomes r
RECURSIVE ReplaceRuns(_, _, _)
ReplaceRuns(s, X, r) ==
  IF s = << >> THEN << >>
  ELSE IF Head(s) \in X
       THEN IF Len(s) > 1 /\ s[2] \in X
            THEN ReplaceRuns(Tail(s), X, r)
            ELSE <<r>> \o ReplaceRuns(Tail(s), X, r)
       ELSE <<Head(s)>> \o ReplaceRuns(Tail(s), X, r)

\* replace(/^-|-$/g, ''): one leading and one trailing hyphen are dropped
StripEdgeHyphens(s) ==
  LET a == IF s # << >> /\ Head(s) = "-" THEN Tail(s) ELSE s
  IN  IF a # << >> /\ a[Len(a)] = "-" THEN SubSeq(a, 1, Len(a) - 1) ELSE a

\* String.prototype.trim
RECURSIVE TrimLeft(_)
TrimLeft(s) ==
  IF s # << >> /\ Head(s) \in Whitespace THEN TrimLeft(Tail(s)) ELSE s

RECURSIVE TrimRight(_)
TrimRight(s) ==
  IF s # << >> /\ s[Len(s)] \in Whitespace
  THEN TrimRight(SubSeq(s, 1, Len(s) - 1))
  ELSE s

Trim(s) == TrimLeft(TrimRight(s))

IsCombining(c) == c \in Combining

NotCombining(c) == ~IsCombining(c)

normalizeModalSlug(title) ==
  ToLowerCase(
    StripEdgeHyphens(
      ReplaceRuns(
        ReplaceRuns(SelectSeq(NFD(title), NotCombining), Whitespace, "-"),
        {"-"}, "-")))

\* the string a sequence of characters stands for
RECURSIVE Str(_)
Str(s) == IF s = << >> THEN "" ELSE Head(s) \o Str(Tail(s))

\* slugify(value, {lower, strict, trim}): the accented letter maps to its
\* base letter, the replacement character to a space, strict mode keeps
\* letters, digits and spaces only
SlugifyChar(c) ==
  LET m == IF c = "'" THEN "a" ELSE IF c = "-" THEN " " ELSE c
  IN  IF m \in Alnum \cup Whitespace THEN <<m>> ELSE << >>

RECURSIVE SlugifyChars(_)
SlugifyChars(value) ==
  IF value = << >> THEN << >> ELSE SlugifyChar(Head(value)) \o SlugifyChars(Tail(value))

slugify(value) ==
  ToLowerCase(ReplaceRuns(Trim(SlugifyChars(value)), Whitespace, "-"))

normalizeAssetToken(value, fallback) ==
  LET normalized == slugify(value)
  IN  IF normalized = << >> THEN fallback ELSE Str(normalized)

\* ------------------------------------------------------------------------
\* Paths
\* ------------------------------------------------------------------------

\* PORTFOLIO_ROOT, an absolute path, as its segments
PORTFOLIO_ROOT == <<"srv", "portfolio">>

RECURSIVE DropLeadingEmpty(_)
DropLeadingEmpty(p) ==
  IF p # << >> /\ Head(p) = "" THEN DropLeadingEmpty(Tail(p)) ELSE p

\* replace(/^\/+/, ''): leading slashes are dropped
normalizeRelativeAssetPath(input) == DropLeadingEmpty(input)

\* the normalisation path.resolve and path.posix.join apply: "." and empty
\* segments vanish, ".." removes the segment before it (none at the top)
RECURSIVE NormalizeSegments(_, _)
NormalizeSegments(done, rest) ==
  IF rest = << >> THEN done
  ELSE LET s == Head(rest)
       IN  IF s = "" \/ s = "."
           THEN NormalizeSegments(done, Tail(rest))
           ELSE IF s = ".."
                THEN NormalizeSegments(
                       IF done = << >> THEN done ELSE SubSeq(done, 1, Len(done) - 1),
                       Tail(rest))
                ELSE NormalizeSegments(Append(done, s), Tail(rest))

\* path.posix.join(dir, name) of two relative paths
PosixJoin(dir, name) == NormalizeSegments(<< >>, dir \o name)

\* path.resolve(PORTFOLIO_ROOT, relativePath): a path with a leading slash
\* replaces the root
PathResolve(relativePath) ==
  IF relativePath # << >> /\ Head(relativePath) = ""
  THEN NormalizeSegments(<< >>, relativePath)
  ELSE NormalizeSegments(<< >>, PORTFOLIO_ROOT \o relativePath)

IsPrefix(p, q) == Len(p) <= Len(q) /\ SubSeq(q, 1, Len(p)) = p

\* segment names whose text starts with two dots
DotDotNames == {"..", "..b"}

Escape == <<"\\escape">>

\* the path handed back without the comparison with the root
assertNothing(absoluteTarget) == absoluteTarget

\* the absolute path, or Escape where the code throws
assertPathInsidePortfolioRoot(absoluteTarget) ==
  IF IsPrefix(PORTFOLIO_ROOT, absoluteTarget)
  THEN IF /\ Len(absoluteTarget) > Len(PORTFOLIO_ROOT)
          /\ absoluteTarget[Len(PORTFOLIO_ROOT) + 1] \in DotDotNames
       THEN Escape
       ELSE absoluteTarget
  ELSE Escape

resolvePortfolioPath(relativePath) ==
  assertPathInsidePortfolioRoot(PathResolve(relativePath))

\* ------------------------------------------------------------------------
\* Records and locale documents
\* ------------------------------------------------------------------------

\* what JSON.stringify writes for an array slot that holds undefined
Null == [isNull |-> TRUE]

IsNull(project) == project = Null

\* the order of the category keys in the locale files (Object.entries)
CategoryOrder == <<"web", "app", "lab">>

CategoriesOf(localeProjects) ==
  SelectSeq(CategoryOrder, LAMBDA c : c \in DOMAIN localeProjects)

\* every (category, index, project) of a document, in iteration order;
\* index counts from 1 where the code counts from 0
RECURSIVE EntriesFrom(_, _)
EntriesFrom(localeProjects, cats) ==
  IF cats = << >> THEN << >>
  ELSE LET c == Head(cats)
           list == localeProjects[c]
       IN  [i \in 1..Len(list) |->
              [category |-> c, index |-> i, project |-> list[i]]]
           \o EntriesFrom(localeProjects, Tail(cats))

Entries(localeProjects) == EntriesFrom(localeProjects, CategoriesOf(localeProjects))

TypeError == [kind |-> "TypeError"]

NotFound == [kind |-> "null"]

\* TypeError where project.title is read on a null entry
getProjectSlugSummary(localeProjects) ==
  LET es == Entries(localeProjects)
  IN  IF \E i \in 1..Len(es) : IsNull(es[i].project)
      THEN TypeError
      ELSE [kind |-> "summary",
            list |-> [i \in 1..Len(es) |->
                        [slug |-> normalizeModalSlug(es[i].project.title),
                         category |-> es[i].category,
                         index |-> es[i].index,
                         title |-> es[i].project.title]]]

\* findIndex visits the entries of a category in order and stops at the
\* first match; the categories after a match are not visited
RECURSIVE FindFirst(_, _, _)
FindFirst(es, i, normalized) ==
  IF i > Len(es) THEN NotFound
  ELSE IF IsNull(es[i].project) THEN TypeError
  ELSE IF normalizeModalSlug(es[i].project.title) = normalized
       THEN [kind |-> "found", category |-> es[i].category,
             index |-> es[i].index, project |-> es[i].project]
       ELSE FindFirst(es, i + 1, normalized)

findProjectBySlug(localeProjects, slug) ==
  FindFirst(Entries(localeProjects), 1, normalizeModalSlug(slug))

\* ------------------------------------------------------------------------
\* Validation and resolution.  A check that passes is Ok; one that throws
\* is Thrown(status), a plain Error or TypeError carrying no status being
\* answered with 500 by the error middleware.
\* ------------------------------------------------------------------------

Ok == [kind |-> "ok"]

Thrown(status) == [kind |-> "error", status |-> status]

createHttpError(status) == Thrown(status)

UnexpectedError == Thrown(500)

\* the first result of a sequence of checks that is not Ok
RECURSIVE FirstThrown(_)
FirstThrown(checks) ==
  IF checks = << >> THEN Ok
  ELSE IF Head(checks) # Ok THEN Head(checks) ELSE FirstThrown(Tail(checks))

\* the property names every plain object inherits from Object.prototype
ObjectPrototypeNames ==
  {"constructor", "hasOwnProperty", "isPrototypeOf", "propertyIsEnumerable",
   "toLocaleString", "toString", "valueOf", "__proto__", "__defineGetter__",
   "__defineSetter__", "__lookupGetter__", "__lookupSetter__"}

\* key in object, for a plain object with the own keys given: true for an
\* own key and for an inherited name
HasProperty(key, ownKeys) == key \in ownKeys \cup ObjectPrototypeNames

validateCategoryExists(projectsByLocale, category) ==
  LET missing == SelectSeq(LOCALES, LAMBDA l : ~HasProperty(category, DOMAIN projectsByLocale[l]))
  IN  IF Len(missing) > 0 THEN createHttpError(400) ELSE Ok

\* the check made on the first locale only
assertUniqueSlugFirstLocale(projectsByLocale, payload) ==
  LET allSlugs == getProjectSlugSummary(projectsByLocale[LOCALES[1]])
  IN  IF allSlugs = TypeError THEN UnexpectedError
      ELSE IF \E j \in 1..Len(allSlugs.list) :
                allSlugs.list[j].slug = normalizeModalSlug(payload.locales[LOCALES[1]].title)
           THEN createHttpError(409)
           ELSE Ok

\* the check made on the title as sent, not on its slug
assertUniqueTitleForCreate(projectsByLocale, payload) ==
  FirstThrown(
    [i \in 1..Len(LOCALES) |->
       LET allSlugs == getProjectSlugSummary(projectsByLocale[LOCALES[i]])
       IN  IF allSlugs = TypeError THEN UnexpectedError
           ELSE IF \E j \in 1..Len(allSlugs.list) :
                     allSlugs.list[j].slug = payload.locales[LOCALES[i]].title
                THEN createHttpError(409)
                ELSE Ok])

assertUniqueSlugForCreate(projectsByLocale, payload) ==
  FirstThrown(
    [i \in 1..Len(LOCALES) |->
       LET locale == LOCALES[i]
           newSlug == normalizeModalSlug(payload.locales[locale].title)
           allSlugs == getProjectSlugSummary(projectsByLocale[locale])
       IN  IF allSlugs = TypeError THEN UnexpectedError
           ELSE IF \E j \in 1..Len(allSlugs.list) : allSlugs.list[j].slug = newSlug
                THEN createHttpError(409)
                ELSE Ok])

assertUniqueSlugForEdit(projectsByLocale, payload, targetsByLocale) ==
  FirstThrown(
    [i \in 1..Len(LOCALES) |->
       LET locale == LOCALES[i]
           newSlug == normalizeModalSlug(payload.locales[locale].title)
           allSlugs == getProjectSlugSummary(projectsByLocale[locale])
           target == targetsByLocale[locale]
       IN  IF allSlugs = TypeError THEN UnexpectedError
           ELSE IF \E j \in 1..Len(allSlugs.list) :
                     /\ allSlugs.list[j].slug = newSlug
                     /\ ~(/\ allSlugs.list[j].category = target.category
                          /\ allSlugs.list[j].index = target.index)
                THEN createHttpError(409)
                ELSE Ok])

\* projectsByLocale[locale]?.[category]?.[index], Null standing for every
\* falsy outcome
PositionalFallback(localeProjects, category, index) ==
  IF category \in DOMAIN localeProjects /\ index \in 1..Len(localeProjects[category])
  THEN localeProjects[category][index]
  ELSE Null

\* the target of one locale: the direct match, else the record at the
\* coordinates of the reference locale
ResolveLocaleTarget(localeProjects, baseSlug, baseReference) ==
  LET direct == findProjectBySlug(localeProjects, baseSlug)
      fallback == PositionalFallback(localeProjects, baseReference.category,
                                     baseReference.index)
  IN  IF direct = TypeError THEN UnexpectedError
      ELSE IF direct # NotFound THEN direct
      ELSE IF IsNull(fallback) THEN createHttpError(409)
      ELSE [kind |-> "found", category |-> baseReference.category,
            index |-> baseReference.index, project |-> fallback]

resolveEditTargetsByLocale(projectsByLocale, baseSlug, baseLocale) ==
  LET baseReference == findProjectBySlug(projectsByLocale[baseLocale], baseSlug)
      perLocale == [l \in LocaleSet |->
                      ResolveLocaleTarget(projectsByLocale[l], baseSlug, baseReference)]
      failed == SelectSeq(LOCALES, LAMBDA l : perLocale[l].kind = "error")
  IN  IF baseReference = TypeError THEN UnexpectedError
      ELSE IF baseReference = NotFound THEN createHttpError(404)
      ELSE IF Len(failed) > 0 THEN perLocale[failed[1]]
      ELSE [kind |-> "targets", targets |-> perLocale]

\* ------------------------------------------------------------------------
\* The asset tree: files and dirs are the sets of absolute paths that exist
\* ------------------------------------------------------------------------

\* fs.access succeeds on files and on directories
fileExists(absolutePath, files, dirs) == absolutePath \in files \cup dirs

\* mkdir with recursive: the directory and every ancestor of it
MkdirRecursive(absoluteDir, dirs) ==
  dirs \cup {SubSeq(absoluteDir, 1, n) : n \in 1..Len(absoluteDir)}

\* gallery names counted from zero
GalleryNameFromZero(baseName, index) == baseName \o ToString(index - 1) \o WebpExtension

GalleryName(baseName, index) == baseName \o ToString(index) \o WebpExtension

ThumbName(baseName, attempt) ==
  IF attempt = 1
  THEN baseName \o WebpExtension
  ELSE baseName \o "-" \o ToString(attempt) \o WebpExtension

CandidateRelativePath(targetRelativeDir, candidateName) ==
  normalizeRelativeAssetPath(PosixJoin(targetRelativeDir, <<candidateName>>))

\* the index taken as it comes, without looking at the directory
FirstIndexUnchecked(index, targetRelativeDir, baseName, files, dirs) == index

\* the first index from numericStart on whose name is free
RECURSIVE FirstFreeIndex(_, _, _, _, _)
FirstFreeIndex(index, targetRelativeDir, baseName, files, dirs) ==
  IF fileExists(resolvePortfolioPath(
                  CandidateRelativePath(targetRelativeDir, GalleryName(baseName, index))),
                files, dirs)
  THEN FirstFreeIndex(index + 1, targetRelativeDir, baseName, files, dirs)
  ELSE index

\* the first attempt whose suffixed name is free
RECURSIVE FirstFreeAttempt(_, _, _, _, _)
FirstFreeAttempt(attempt, targetRelativeDir, baseName, files, dirs) ==
  IF fileExists(resolvePortfolioPath(
                  CandidateRelativePath(targetRelativeDir, ThumbName(baseName, attempt))),
                files, dirs)
  THEN FirstFreeAttempt(attempt + 1, targetRelativeDir, baseName, files, dirs)
  ELSE attempt

saveNewImageFile(targetRelativeDir, baseName, useNumericSequence, numericStart, files, dirs) ==
  LET absoluteDir == resolvePortfolioPath(targetRelativeDir)
      made == MkdirRecursive(absoluteDir, dirs)
      index == IF useNumericSequence
               THEN FirstFreeIndex(numericStart, targetRelativeDir, baseName, files, made)
               ELSE numericStart
      attempt == FirstFreeAttempt(1, targetRelativeDir, baseName, files, made)
      candidateName == IF useNumericSequence
                       THEN GalleryName(baseName, index)
                       ELSE ThumbName(baseName, attempt)
      candidateRelativePath == CandidateRelativePath(targetRelativeDir, candidateName)
      candidateAbsolutePath == resolvePortfolioPath(candidateRelativePath)
  IN  [relativePath |-> candidateRelativePath,
       nextIndex |-> IF useNumericSequence THEN index + 1 ELSE numericStart,
       written |-> candidateAbsolutePath,
       files |-> files \cup {candidateAbsolutePath},
       dirs |-> made]

\* the normalized path, or what the code throws
ensureExistingAssetPath(relativeAssetPath, files, dirs) ==
  LET normalized == normalizeRelativeAssetPath(relativeAssetPath)
      absolute == resolvePortfolioPath(normalized)
  IN  IF absolute = Escape THEN UnexpectedError
      ELSE IF ~fileExists(absolute, files, dirs) THEN createHttpError(400)
      ELSE [kind |-> "path", path |-> normalized]

\* ------------------------------------------------------------------------
\* Building and placing records
\* ------------------------------------------------------------------------

PROJECT_FIELD_ORDER ==
  <<"title", "description", "image", "initialDate", "endDate", "projectUrlLink",
    "linkedinUrlLink", "githubUrlLink", "developed", "developingPorcentage",
    "icons", "compatibility", "images">>

\* a record without keys other than those of PROJECT_FIELD_ORDER
NoExtraFields == [key \in {} |-> ""]

\* a record keeps title, image, images, two of the shared fields and, in
\* extra, the other keys the stored object has, each with its value.
\* orderProjectFields copies the fields of PROJECT_FIELD_ORDER into an empty
\* object and then every other key that is not yet in it: a key with an
\* inherited name is taken to be there and is not copied
orderProjectFields(project) ==
  LET ordered == {PROJECT_FIELD_ORDER[i] : i \in 1..Len(PROJECT_FIELD_ORDER)}
      copied == {key \in DOMAIN project.extra : ~HasProperty(key, ordered)}
  IN  [project EXCEPT !.extra = [key \in copied |-> project.extra[key]]]

buildProjectObject(existingProject, localeInput, commonInput, thumbnailPath, galleryPaths) ==
  orderProjectFields(
    [title |-> Trim(localeInput.title),
     image |-> thumbnailPath,
     initialDate |-> Trim(commonInput.initialDate),
     compatibility |-> commonInput.compatibility,
     images |-> galleryPaths,
     extra |-> IF IsNull(existingProject) THEN NoExtraFields ELSE existingProject.extra])

\* Array.prototype.splice(index, 1)
Splice(list, index) ==
  IF index \in 1..Len(list)
  THEN SubSeq(list, 1, index - 1) \o SubSeq(list, index + 1, Len(list))
  ELSE list

\* the documents POST /api/projects writes
CreateDocuments(projectsByLocale, payload, mediaResult) ==
  [l \in LocaleSet |->
     [projectsByLocale[l] EXCEPT ![payload.category] =
        Append(@, buildProjectObject(Null, payload.locales[l], payload.common,
                                     mediaResult.thumbnailPath, mediaResult.galleryPaths))]]

\* the documents PUT /api/projects/:slug writes
UpdateDocuments(projectsByLocale, payload, targetsByLocale, mediaResult) ==
  [l \in LocaleSet |->
     LET target == targetsByLocale[l]
         updated == buildProjectObject(target.project, payload.locales[l], payload.common,
                                       mediaResult.thumbnailPath, mediaResult.galleryPaths)
     IN  IF target.category # payload.category
         THEN [projectsByLocale[l] EXCEPT
                 ![target.category] = Splice(@, target.index),
                 ![payload.category] = Append(@, updated)]
         ELSE [projectsByLocale[l] EXCEPT
                 ![target.category] = [@ EXCEPT ![target.index] = updated]]]

\* what POST and PUT throw while they put the records into the documents:
\* push is no function of what a document holds under an inherited name.
\* PUT pushes only where the category of the target is not the payload's
DocumentsThrown(op, projectsByLocale, payload, targetsByLocale) ==
  FirstThrown([i \in 1..Len(LOCALES) |->
                 IF /\ op = "create" \/ targetsByLocale[LOCALES[i]].category # payload.category
                    /\ payload.category \notin DOMAIN projectsByLocale[LOCALES[i]]
                 THEN UnexpectedError
                 ELSE Ok])

\* the documents DELETE /api/projects/:slug writes
DeleteDocuments(projectsByLocale, targetsByLocale) ==
  [l \in LocaleSet |->
     [projectsByLocale[l] EXCEPT
        ![targetsByLocale[l].category] = Splice(@, targetsByLocale[l].index)]]

\* ------------------------------------------------------------------------
\* Assets of a record
\* ------------------------------------------------------------------------

\* the position of the first segment "projects", 0 when there is none
RECURSIVE FindSegment(_, _, _)
FindSegment(segments, i, name) ==
  IF i > Len(segments) THEN 0
  ELSE IF segments[i] = name THEN i ELSE FindSegment(segments, i + 1, name)

\* the segment after "projects" when it names a folder other than thumbs
FolderOfImagePath(imagePath) ==
  LET segments == normalizeRelativeAssetPath(imagePath)
      projectsIndex == FindSegment(segments, 1, "projects")
  IN  IF /\ projectsIndex > 0
         /\ projectsIndex + 1 <= Len(segments)
         /\ segments[projectsIndex + 1] # ""
         /\ segments[projectsIndex + 1] # "thumbs"
      THEN segments[projectsIndex + 1]
      ELSE ""

AllImages(project) ==
  SelectSeq(<<project.image>> \o project.images, LAMBDA q : q # << >>)

inferAssetFolderFromProject(project) ==
  LET folders == SelectSeq([i \in 1..Len(AllImages(project)) |->
                              FolderOfImagePath(AllImages(project)[i])],
                           LAMBDA f : f # "")
  IN  IF Len(folders) > 0 THEN folders[1]
      ELSE normalizeAssetToken(project.title, "projeto")

\* Array.from(new Set(list)): the first occurrence of each element, in order
RECURSIVE Distinct(_, _)
Distinct(list, done) ==
  IF list = << >> THEN done
  ELSE Distinct(Tail(list),
                IF \E i \in 1..Len(done) : done[i] = Head(list)
                THEN done ELSE Append(done, Head(list)))

\* image, then images, normalized; no empty path and none twice
collectProjectAssetPaths(project) ==
  Distinct(SelectSeq([i \in 1..Len(AllImages(project)) |->
                        normalizeRelativeAssetPath(AllImages(project)[i])],
                     LAMBDA q : q # << >>),
           << >>)

\* the files left after removeAssetFileIfExists; unlink removes a file and
\* fails on a directory, and the caller swallows what is thrown
removeAssetFileIfExists(relativeAssetPath, files) ==
  LET normalized == normalizeRelativeAssetPath(relativeAssetPath)
      absolutePath == resolvePortfolioPath(normalized)
  IN  IF normalized = << >> \/ absolutePath = Escape THEN files
      ELSE files \ {absolutePath}

\* what removeAssetDirectoryIfExists hands to fs.rm(recursive, force): the
\* path and all below it, nothing when the path is empty or does not exist
removeAssetDirectoryIfExists(relativeDirPath, files, dirs) ==
  LET normalized == normalizeRelativeAssetPath(relativeDirPath)
      absolutePath == resolvePortfolioPath(normalized)
  IN  IF normalized = << >> \/ absolutePath = Escape
         \/ ~fileExists(absolutePath, files, dirs)
      THEN {}
      ELSE {q \in files \cup dirs : IsPrefix(absolutePath, q)}

\* the entries fs.rm can remove next: unlink takes a file, rmdir a directory
\* with nothing left below it; rm works on the children of a directory
\* concurrently, so the order among these is not fixed
RemovableByRm(entries) ==
  {q \in entries : \A p \in entries : IsPrefix(q, p) => p = q}

\* what DELETE still has to remove of the folder of the record
RemoveAssetFolder(assetFolder, files, dirs) ==
  LET galleryDir == normalizeRelativeAssetPath(PosixJoin(PROJECTS_ASSETS_DIR, <<assetFolder>>))
  IN  IF assetFolder # "" /\ assetFolder # "thumbs"
      THEN removeAssetDirectoryIfExists(galleryDir, files, dirs)
      ELSE {}

\* ------------------------------------------------------------------------
\* Request validation before the write queue
\* ------------------------------------------------------------------------

PlanEntryErrors(item) ==
  IF item.kind \notin {"new", "existing"} THEN {"kind"}
  ELSE IF item.kind = "new" /\ item.fileId = "" THEN {"fileId"}
  ELSE IF item.kind = "existing" /\ item.path = << >> THEN {"path"}
  ELSE {}

HexDigits ==
  {"0", "1", "2", "3", "4", "5", "6", "7", "8", "9", "a", "b", "c", "d", "e", "f",
   "A", "B", "C", "D", "E", "F"}

\* the two patterns of normalizeHexColor: "#" and three or six hex digits
MatchesHexColor(input) ==
  LET value == Trim(input)
  IN  /\ Len(value) \in {4, 7}
      /\ value[1] = "#"
      /\ \A i \in 2..Len(value) : value[i] \in HexDigits

\* thumbnailConfig?.mode || 'image', the empty string being falsy
ThumbnailModeOf(payload) ==
  IF "thumbnailConfig" \in DOMAIN payload /\ payload.thumbnailConfig.mode # ""
  THEN payload.thumbnailConfig.mode
  ELSE "image"

\* the checks of thumbnailConfig: the mode, and for logoColor with a new
\* thumbnail the background colour and the padding
ThumbnailConfigErrors(payload) ==
  LET thumbnailMode == ThumbnailModeOf(payload)
  IN  (IF thumbnailMode \notin {"image", "logoColor"} THEN {"mode"} ELSE {})
      \cup (IF thumbnailMode = "logoColor" /\ payload.thumbnailPlan.kind = "new"
            THEN (IF Trim(payload.thumbnailConfig.backgroundColor) = << >>
                  THEN {"backgroundColor"} ELSE {})
                 \cup (IF payload.thumbnailConfig.paddingPercent < 0
                          \/ payload.thumbnailConfig.paddingPercent > 40
                       THEN {"paddingPercent"} ELSE {})
            ELSE {})

\* the violations found; the first block returns before the field checks
validatePayloadShape(payload) ==
  LET first == (IF payload.category = "" THEN {"category"} ELSE {})
               \cup (IF payload.assetFolder = << >> THEN {"assetFolder"} ELSE {})
               \cup (IF payload.galleryPlan = << >> THEN {"galleryPlan"} ELSE {})
      fields == (IF Trim(payload.common.initialDate) = << >> THEN {"initialDate"} ELSE {})
                \cup (IF payload.common.compatibility \notin {1, 2, 3}
                      THEN {"compatibility"} ELSE {})
                \cup {"title " \o l : l \in {x \in LocaleSet : Trim(payload.locales[x].title) = << >>}}
                \cup UNION {{"galleryPlan " \o ToString(i) \o e : e \in PlanEntryErrors(payload.galleryPlan[i])} :
                              i \in 1..Len(payload.galleryPlan)}
                \cup {"thumbnailPlan " \o e : e \in PlanEntryErrors(payload.thumbnailPlan)}
                \cup {"thumbnailConfig " \o e : e \in ThumbnailConfigErrors(payload)}
  IN  IF first # {} THEN first ELSE fields

\* orderedSlugs as the reorder handler normalizes it
NormalizeOrderedSlugs(raw) ==
  SelectSeq([i \in 1..Len(raw) |-> ToLowerCase(Trim(raw[i]))], LAMBDA x : x # << >>)

\* ------------------------------------------------------------------------
\* Reorder
\* ------------------------------------------------------------------------

\* Map.get after the slugs were set in list order: the last position of the
\* slug, 0 standing for undefined
RECURSIVE OldIndex(_, _, _)
OldIndex(currentSlugs, i, slug) ==
  IF i = 0 THEN 0
  ELSE IF currentSlugs[i] = slug THEN i ELSE OldIndex(currentSlugs, i - 1, slug)

\* localeList[index]; an index outside the list yields undefined, which is
\* written as null
ElementAt(localeList, index) ==
  IF index \in 1..Len(localeList) THEN localeList[index] ELSE Null

HasRepeat(seq) == \E i, j \in 1..Len(seq) : i < j /\ seq[i] = seq[j]

Range(seq) == {seq[i] : i \in 1..Len(seq)}

\* the checks of the reorder task on the list of the reference locale
ReorderChecks(projectsByLocale, lang, category, orderedSlugs) ==
  LET baseList == projectsByLocale[lang][category]
      currentSlugs == [i \in 1..Len(baseList) |-> normalizeModalSlug(baseList[i].title)]
  IN  IF validateCategoryExists(projectsByLocale, category) # Ok
      THEN validateCategoryExists(projectsByLocale, category)
      ELSE IF category \notin DOMAIN projectsByLocale[lang] THEN createHttpError(400)
      ELSE IF Len(baseList) = 0 THEN createHttpError(400)
      ELSE IF \E i \in 1..Len(baseList) : IsNull(baseList[i]) THEN UnexpectedError
      ELSE IF Len(orderedSlugs) # Len(currentSlugs) THEN createHttpError(400)
      ELSE IF HasRepeat(orderedSlugs) THEN createHttpError(400)
      ELSE IF \E i \in 1..Len(currentSlugs) : currentSlugs[i] \notin Range(orderedSlugs)
           THEN createHttpError(400)
           ELSE Ok

\* the documents POST /api/projects/reorder writes
ReorderDocuments(projectsByLocale, lang, category, orderedSlugs) ==
  LET baseList == projectsByLocale[lang][category]
      currentSlugs == [i \in 1..Len(baseList) |-> normalizeModalSlug(baseList[i].title)]
      reorderedIndices == [i \in 1..Len(orderedSlugs) |->
                             OldIndex(currentSlugs, Len(currentSlugs), orderedSlugs[i])]
  IN  [l \in LocaleSet |->
         [projectsByLocale[l] EXCEPT ![category] =
            [i \in 1..Len(reorderedIndices) |-> ElementAt(@, reorderedIndices[i])]]]

\* the fileId whose upload becomes the thumbnail
ThumbnailFileIdOf(payload) ==
  IF /\ ThumbnailModeOf(payload) = "logoColor"
     /\ "logoFileId" \in DOMAIN payload.thumbnailConfig
     /\ payload.thumbnailConfig.logoFileId # ""
  THEN payload.thumbnailConfig.logoFileId
  ELSE payload.thumbnailPlan.fileId

\* what materializeMediaPlan throws at an entry of the plan before it
\* touches the tree, Ok when it throws nothing
EntryThrown(item, fileId, assetFolder, uploadedFilesMap, allowExistingReferences, files, dirs) ==
  IF assetFolder = "thumbs" THEN createHttpError(400)
  ELSE IF item.kind = "existing"
       THEN IF ~allowExistingReferences THEN createHttpError(400)
            ELSE IF ensureExistingAssetPath(item.path, files, dirs).kind = "error"
                 THEN ensureExistingAssetPath(item.path, files, dirs)
                 ELSE Ok
       ELSE IF fileId \notin DOMAIN uploadedFilesMap THEN createHttpError(400)
            ELSE IF uploadedFilesMap[fileId] = "corrupt" THEN createHttpError(400)
            ELSE Ok

\* ------------------------------------------------------------------------
\* State
\* ------------------------------------------------------------------------

VARIABLES
  catalog,   \* locale -> the document in the locale's catalog file
  files,     \* absolute paths of the files that exist
  dirs,      \* absolute paths of the directories that exist
  tasks,     \* the tasks passed to withWriteLock, in call order
  early,     \* the request handled outside the write queue, last answered or in flight
  issued     \* number of mutating requests received

vars == <<catalog, files, dirs, tasks, early, issued>>

Abs(relativePath) == PORTFOLIO_ROOT \o relativePath

CatalogFiles == {Abs(PROJECTS_FILE_BY_LOCALE[l]) : l \in LocaleSet}

NoDocuments == [l \in LocaleSet |-> [c \in {} |-> << >>]]

NoTargets == [l \in LocaleSet |-> NotFound]

NoMedia == [error |-> Ok, galleryPaths |-> << >>, thumbnailPath |-> << >>,
            assetFolder |-> "", nextNumericName |-> 1, written |-> {},
            files |-> {}, dirs |-> {}]

\* a task as withWriteLock receives it: a promise chained on writeQueue
NewTask(req) ==
  [req |-> req, st |-> "pending", pc |-> "-", wi |-> 0,
   pre |-> NoDocuments, projectsByLocale |-> NoDocuments, targets |-> NoTargets,
   media |-> NoMedia, status |-> 0, slug |-> << >>, post |-> NoDocuments,
   filesBefore |-> {}, filesAfter |-> {}]

Settled(t) == t.st \in {"fulfilled", "rejected"}

Running(k) == tasks[k].st = "running"

\* ------------------------------------------------------------------------
\* Catalogs and requests of the model
\* ------------------------------------------------------------------------

tA == <<"A">>
tB == <<"b">>
tC == <<"c">>
tASpace == <<"a", " ">>
tAccent == <<"'", "-", "C">>

ThumbOf(folder) == PROJECTS_THUMBS_DIR \o <<folder \o WebpExtension>>

GalleryOf(folder, n) == PROJECTS_ASSETS_DIR \o <<folder, GalleryName(folder, n)>>

\* the keys a stored record has besides those of PROJECT_FIELD_ORDER
StoredExtra == [featured |-> "yes", constructor |-> "legacy"]

StoredProject(title, folder) ==
  [title |-> title, image |-> ThumbOf(folder), initialDate |-> <<"1">>,
   compatibility |-> 1, images |-> <<GalleryOf(folder, 1)>>, extra |-> StoredExtra]

\* two projects whose titles differ by locale: the pt title of the second
\* has the slug of the en and es titles of the first
Project1 == [pt |-> StoredProject(tA, "b1"), en |-> StoredProject(tB, "b1"),
             es |-> StoredProject(tB, "b1")]

Project2 == [pt |-> StoredProject(tB, "c1"), en |-> StoredProject(tC, "c1"),
             es |-> StoredProject(tC, "c1")]

EmptyCatalog == [l \in LocaleSet |-> [c \in {"web", "app"} |-> << >>]]

AlignedCatalog ==
  [l \in LocaleSet |-> [c \in {"web", "app"} |->
     IF c = "web" THEN <<Project1[l], Project2[l]>> ELSE << >>]]

\* the record a POST with the pt title "c", the en and es title "A", the
\* category app and the asset folder "B1" adds to en and es
Project3 ==
  [title |-> tA, image |-> PROJECTS_THUMBS_DIR \o <<ThumbName("b1", 2)>>,
   initialDate |-> <<"2">>, compatibility |-> 2, images |-> <<GalleryOf("b1", 2)>>,
   extra |-> NoExtraFields]

\* the catalogs left by that POST followed by DELETE /api/projects/c?lang=pt
\* on the aligned catalogs: pt lost the new record, en and es lost Project2
DivergedCatalog ==
  [l \in LocaleSet |-> [c \in {"web", "app"} |->
     IF l = "pt"
     THEN (IF c = "web" THEN <<Project1[l], Project2[l]>> ELSE << >>)
     ELSE (IF c = "web" THEN <<Project1[l]>> ELSE <<Project3>>)]]

BaseDirs ==
  MkdirRecursive(Abs(PROJECTS_THUMBS_DIR),
                 MkdirRecursive(Abs(<<"data", "projects">>), {}))

StoredFiles ==
  CatalogFiles \cup {Abs(ThumbOf("b1")), Abs(GalleryOf("b1", 1)),
                     Abs(ThumbOf("c1")), Abs(GalleryOf("c1", 1))}

StoredDirs ==
  MkdirRecursive(Abs(PROJECTS_ASSETS_DIR \o <<"b1">>),
                 MkdirRecursive(Abs(PROJECTS_ASSETS_DIR \o <<"c1">>), BaseDirs))

\* the asset tree left by the same two requests
DivergedFiles == CatalogFiles \cup {Abs(ThumbOf("b1"))}

DivergedDirs == MkdirRecursive(Abs(PROJECTS_ASSETS_DIR \o <<"c1">>), BaseDirs)

InitEmpty ==
  /\ catalog = EmptyCatalog
  /\ files = CatalogFiles
  /\ dirs = BaseDirs

InitAligned ==
  /\ catalog = AlignedCatalog
  /\ files = StoredFiles
  /\ dirs = StoredDirs

InitDiverged ==
  /\ catalog = DivergedCatalog
  /\ files = DivergedFiles
  /\ dirs = DivergedDirs

InitQueue ==
  /\ tasks = << >>
  /\ early = [op |-> "none", status |-> 0]
  /\ issued = 0

Init == (InitEmpty \/ InitAligned \/ InitDiverged) /\ InitQueue

\* the stored catalogs with an empty queue
InitStored == InitAligned /\ InitQueue

\* ------------------------------------------------------------------------
\* Requests of the model
\* ------------------------------------------------------------------------

SameTitles(t) == [l \in LocaleSet |-> [title |-> t]]

TitlesOf(project) == [l \in LocaleSet |-> [title |-> project[l].title]]

\* pt title with the slug of the en title of Project2
CrossTitles == [l \in LocaleSet |-> [title |-> IF l = "pt" THEN tC ELSE tA]]

GoodCommon == [initialDate |-> <<"2", " ">>, compatibility |-> 2]

NewEntry(fileId) == [kind |-> "new", fileId |-> fileId]

ExistingEntry(path) == [kind |-> "existing", path |-> path]

Uploads == [id \in {"g1", "t1"} |-> "ok"]

MakePayload(category, assetFolder, locales, galleryPlan, thumbnailPlan) ==
  [category |-> category, assetFolder |-> assetFolder, common |-> GoodCommon,
   locales |-> locales, galleryPlan |-> galleryPlan, thumbnailPlan |-> thumbnailPlan]

CreatePayloads ==
  {MakePayload(c, <<"B", "1">>, t, <<NewEntry("g1")>>, NewEntry("t1")) :
     c \in {"web", "app"}, t \in {SameTitles(tASpace), CrossTitles, SameTitles(tAccent)}}
  \cup {MakePayload("web", <<"c", "2">>, SameTitles(tAccent), <<NewEntry("g1")>>, NewEntry("t1")),
        MakePayload("lab", <<"B", "1">>, SameTitles(tASpace), <<NewEntry("g1")>>, NewEntry("t1")),
        MakePayload("constructor", <<"B", "1">>, SameTitles(tASpace), <<NewEntry("g1")>>, NewEntry("t1")),
        MakePayload("web", <<"B", "1">>, SameTitles(tAccent), << >>, NewEntry("t1"))}

KeepPayload ==
  MakePayload("web", <<"B", "1">>, TitlesOf(Project1),
              <<ExistingEntry(GalleryOf("b1", 1))>>, ExistingEntry(ThumbOf("b1")))

RetitlePayload ==
  MakePayload("web", <<"B", "1">>, SameTitles(tAccent),
              <<ExistingEntry(GalleryOf("b1", 1)), NewEntry("g1")>>,
              ExistingEntry(ThumbOf("b1")))

MovePayload ==
  MakePayload("app", <<"B", "1">>, TitlesOf(Project1),
              <<ExistingEntry(GalleryOf("b1", 1))>>, ExistingEntry(ThumbOf("b1")))

\* an update that names a category no document has as a key of its own
InheritedPayload ==
  MakePayload("constructor", <<"B", "1">>, TitlesOf(Project1),
              <<ExistingEntry(GalleryOf("b1", 1)), NewEntry("g1")>>,
              ExistingEntry(ThumbOf("b1")))

\* an update that takes the gallery file of Project2 as an existing path
BorrowPayload ==
  MakePayload("web", <<"B", "1">>, TitlesOf(Project1),
              <<ExistingEntry(GalleryOf("c1", 1))>>, ExistingEntry(ThumbOf("b1")))

UpdateRequests ==
  {[op |-> "update", slug |-> <<"A">>, lang |-> "pt", payload |-> q, uploads |-> Uploads] :
     q \in {KeepPayload, RetitlePayload, MovePayload, BorrowPayload, InheritedPayload}}
  \cup {[op |-> "update", slug |-> <<"b">>, lang |-> "pt", payload |-> q, uploads |-> Uploads] :
          q \in {KeepPayload, RetitlePayload}}

DeleteRequests ==
  {[op |-> "delete", slug |-> <<"A">>, lang |-> "pt"],
   [op |-> "delete", slug |-> <<"b">>, lang |-> "pt"],
   [op |-> "delete", slug |-> <<"b">>, lang |-> "en"],
   [op |-> "delete", slug |-> <<"c">>, lang |-> "pt"]}

ReorderRequests ==
  {[op |-> "reorder", lang |-> "pt", category |-> "web", orderedSlugs |-> o] :
     o \in {<<<<"B">>, <<"a", " ">>>>, <<<<"a">>>>, <<<<"a">>, <<"a">>>>, <<<<"a">>, <<"c">>>>}}
  \cup {[op |-> "reorder", lang |-> "en", category |-> "web", orderedSlugs |-> o] :
          o \in {<<<<"c">>, <<"b">>>>, <<<<"b">>>>}}
  \cup {[op |-> "reorder", lang |-> "pt", category |-> "constructor",
         orderedSlugs |-> <<<<"a">>>>]}

\* ------------------------------------------------------------------------
\* The write queue
\* ------------------------------------------------------------------------

\* a task called without waiting for the tail of the queue
PredecessorIgnored(k) == TRUE

\* writeQueue.then(task): the task is called only when the promise that was
\* the tail of the queue is fulfilled
PredecessorFulfilled(k) == IF k = 1 THEN TRUE ELSE tasks[k - 1].st = "fulfilled"

\* writeQueue.then(task, task): the task is called once the promise that
\* was the tail of the queue when it was enqueued has settled
PredecessorSettled(k) == IF k = 1 THEN TRUE ELSE Settled(tasks[k - 1])

\* withWriteLock(task)
Enqueue(req) ==
  /\ tasks' = Append(tasks, NewTask(req))
  /\ early' = early

AnswerEarly(req, status) ==
  /\ early' = [op |-> req.op, status |-> status]
  /\ tasks' = tasks

Reject(t, status) ==
  [t EXCEPT !.st = "rejected", !.pc = "-", !.wi = 0, !.status = status,
            !.projectsByLocale = NoDocuments, !.targets = NoTargets]

Fulfil(t, status, slug) ==
  [t EXCEPT !.st = "fulfilled", !.pc = "-", !.wi = 0, !.status = status,
            !.slug = slug, !.projectsByLocale = NoDocuments]

\* ------------------------------------------------------------------------
\* Handlers up to the call of withWriteLock
\* ------------------------------------------------------------------------

PostProject(payload, uploads) ==
  LET req == [op |-> "create", payload |-> payload, uploads |-> uploads]
  IN  /\ issued < MaxRequests
      /\ issued' = issued + 1
      /\ IF validatePayloadShape(payload) # {}
         THEN AnswerEarly(req, 400)
         ELSE Enqueue(req)
      /\ UNCHANGED <<catalog, files, dirs>>

PutProject(req) ==
  /\ issued < MaxRequests
  /\ issued' = issued + 1
  /\ IF validatePayloadShape(req.payload) # {}
     THEN AnswerEarly(req, 400)
     ELSE Enqueue(req)
  /\ UNCHANGED <<catalog, files, dirs>>

DeleteProject(req) ==
  /\ issued < MaxRequests
  /\ issued' = issued + 1
  /\ Enqueue(req)
  /\ UNCHANGED <<catalog, files, dirs>>

ReorderProjects(req) ==
  LET orderedSlugs == NormalizeOrderedSlugs(req.orderedSlugs)
  IN  /\ issued < MaxRequests
      /\ issued' = issued + 1
      /\ IF req.category = "" \/ Len(orderedSlugs) = 0
         THEN AnswerEarly(req, 400)
         ELSE Enqueue([req EXCEPT !.orderedSlugs = orderedSlugs])
      /\ UNCHANGED <<catalog, files, dirs>>

\* ------------------------------------------------------------------------
\* Tasks: from the call of the task to its first write or its rejection
\* ------------------------------------------------------------------------

\* what the task holds when its synchronous part ends: error is Ok when it
\* goes on
\* the records pushed and the catalog write started before
\* materializeMediaPlan is called
BeginCreateWriteFirst(t, projectsByLocale) ==
  [t EXCEPT !.status = FirstThrown(<<validateCategoryExists(projectsByLocale, t.req.payload.category),
                                      assertUniqueSlugForCreate(projectsByLocale, t.req.payload)>>),
            !.projectsByLocale = CreateDocuments(projectsByLocale, t.req.payload, NoMedia),
            !.pc = "write", !.wi = 1]

BeginCreate(t, projectsByLocale) ==
  [t EXCEPT !.status = FirstThrown(<<validateCategoryExists(projectsByLocale, t.req.payload.category),
                                      assertUniqueSlugForCreate(projectsByLocale, t.req.payload)>>),
            !.pc = "media"]

BeginUpdate(t, projectsByLocale) ==
  LET resolved == resolveEditTargetsByLocale(projectsByLocale, t.req.slug, t.req.lang)
  IN  IF resolved.kind = "error"
      THEN [t EXCEPT !.status = resolved]
      ELSE [t EXCEPT
              !.status = FirstThrown(<<validateCategoryExists(projectsByLocale, t.req.payload.category),
                                       assertUniqueSlugForEdit(projectsByLocale, t.req.payload,
                                                               resolved.targets)>>),
              !.targets = resolved.targets,
              !.pc = "media"]

BeginDelete(t, projectsByLocale) ==
  LET resolved == resolveEditTargetsByLocale(projectsByLocale, t.req.slug, t.req.lang)
  IN  IF resolved.kind = "error"
      THEN [t EXCEPT !.status = resolved]
      ELSE [t EXCEPT
              !.status = Ok,
              !.targets = resolved.targets,
              !.projectsByLocale = DeleteDocuments(projectsByLocale, resolved.targets),
              !.pc = "write", !.wi = 1]

BeginReorder(t, projectsByLocale) ==
  LET checked == ReorderChecks(projectsByLocale, t.req.lang, t.req.category, t.req.orderedSlugs)
  IN  IF checked # Ok
      THEN [t EXCEPT !.status = checked]
      ELSE [t EXCEPT
              !.status = Ok,
              !.projectsByLocale = ReorderDocuments(projectsByLocale, t.req.lang,
                                                    t.req.category, t.req.orderedSlugs),
              !.pc = "write", !.wi = 1]

\* the content of a file that fs.writeFile has opened and not yet written
\* to the end: no complete JSON text
Partial == [partial |-> TRUE]

\* documents kept from the read of the first task instead of read again
readStaleProjectsFiles ==
  IF Len(tasks) > 0 /\ tasks[1].st # "pending" THEN tasks[1].pre ELSE catalog

\* readAllProjectsFiles: the three documents as they are on disk when the
\* task is called
readAllProjectsFiles == catalog

\* the call of a task: readAllProjectsFiles and the checks that follow it
BeginTask(k) ==
  LET projectsByLocale == readAllProjectsFiles
      t == [tasks[k] EXCEPT !.st = "running", !.pre = projectsByLocale,
                            !.filesBefore = files]
      begun == CASE t.req.op = "create" -> BeginCreate(t, projectsByLocale)
                 [] t.req.op = "update" -> BeginUpdate(t, projectsByLocale)
                 [] t.req.op = "delete" -> BeginDelete(t, projectsByLocale)
                 [] t.req.op = "reorder" -> BeginReorder(t, projectsByLocale)
      settledAs == [Reject(t, 0) EXCEPT !.post = catalog, !.filesAfter = files]
  IN  /\ k \in 1..Len(tasks)
      /\ tasks[k].st = "pending"
      /\ PredecessorSettled(k)
      /\ tasks' = [tasks EXCEPT ![k] =
                     IF \/ ~(CatalogFiles \subseteq files)
                        \/ \E l \in LocaleSet : catalog[l] = Partial
                     THEN [settledAs EXCEPT !.status = 500]
                     ELSE IF begun.status # Ok
                          THEN [settledAs EXCEPT !.status = begun.status.status]
                          ELSE [begun EXCEPT !.status = 0]]
      /\ UNCHANGED <<catalog, files, dirs, early, issued>>

\* ------------------------------------------------------------------------
\* Tasks: media, catalog writes, asset removal
\* ------------------------------------------------------------------------

\* one awaited step of materializeMediaPlan. The entries are taken in the
\* order of the code, the gallery plan and then the thumbnail; t.media
\* carries the paths so far and the next numeric name. At "media" the next
\* entry is checked: an existing reference is looked up, a new file is
\* converted and the mkdir of saveNewImageFile is awaited. At "saving" the
\* free name is probed and writeFile is awaited. After the thumbnail the
\* records are built and the task goes on to writeAllProjectsFiles
MaterializeStep(k) ==
  LET t == tasks[k]
      payload == t.req.payload
      allowExistingReferences == t.req.op = "update"
      assetFolder == normalizeAssetToken(payload.assetFolder, "projeto")
      m == [t.media EXCEPT !.assetFolder = assetFolder]
      inGallery == Len(m.galleryPaths) < Len(payload.galleryPlan)
      item == IF inGallery THEN payload.galleryPlan[Len(m.galleryPaths) + 1]
              ELSE payload.thumbnailPlan
      fileId == IF item.kind # "new" THEN ""
                ELSE IF inGallery THEN item.fileId ELSE ThumbnailFileIdOf(payload)
      thrown == EntryThrown(item, fileId, assetFolder, t.req.uploads,
                            allowExistingReferences, files, dirs)
      targetRelativeDir ==
        IF inGallery
        THEN normalizeRelativeAssetPath(PosixJoin(PROJECTS_ASSETS_DIR, <<assetFolder>>))
        ELSE PROJECTS_THUMBS_DIR
      saved == saveNewImageFile(targetRelativeDir, assetFolder, inGallery,
                                IF inGallery THEN m.nextNumericName ELSE 1, files, dirs)
      entryPath == IF item.kind = "existing"
                   THEN ensureExistingAssetPath(item.path, files, dirs).path
                   ELSE saved.relativePath
      after == [m EXCEPT
                  !.galleryPaths = IF inGallery THEN Append(@, entryPath) ELSE @,
                  !.thumbnailPath = IF inGallery THEN @ ELSE entryPath,
                  !.nextNumericName = IF inGallery /\ item.kind = "new"
                                      THEN saved.nextIndex ELSE @,
                  !.written = IF item.kind = "new" THEN @ \cup {saved.written} ELSE @]
      documents == IF t.req.op = "create"
                   THEN CreateDocuments(t.pre, payload, after)
                   ELSE UpdateDocuments(t.pre, payload, t.targets, after)
      thrownAfter == DocumentsThrown(t.req.op, t.pre, payload, t.targets)
      next == IF inGallery
              THEN [t EXCEPT !.media = after, !.pc = "media"]
              ELSE IF thrownAfter # Ok
              THEN [Reject(t, thrownAfter.status) EXCEPT
                      !.media = after, !.post = catalog,
                      !.filesAfter = IF t.pc = "saving" THEN saved.files ELSE files]
              ELSE [t EXCEPT !.media = after, !.projectsByLocale = documents,
                             !.pc = "write", !.wi = 1]
  IN  /\ k \in 1..Len(tasks)
      /\ Running(k)
      /\ t.pc \in {"media", "saving"}
      /\ IF t.pc = "saving"
         THEN /\ files' = saved.files
              /\ dirs' = saved.dirs
              /\ tasks' = [tasks EXCEPT ![k] = next]
         ELSE IF thrown # Ok
         THEN /\ UNCHANGED <<files, dirs>>
              /\ tasks' = [tasks EXCEPT ![k] =
                             [Reject(t, thrown.status) EXCEPT
                                !.media = m, !.post = catalog, !.filesAfter = files]]
         ELSE IF item.kind = "existing"
         THEN /\ UNCHANGED <<files, dirs>>
              /\ tasks' = [tasks EXCEPT ![k] = next]
         ELSE /\ files' = files
              /\ dirs' = MkdirRecursive(resolvePortfolioPath(targetRelativeDir), dirs)
              /\ tasks' = [tasks EXCEPT ![k] = [t EXCEPT !.media = m, !.pc = "saving"]]
      /\ UNCHANGED <<catalog, early, issued>>

\* the slug in the response of a fulfilled task
ResponseSlug(t) ==
  CASE t.req.op \in {"create", "update"} -> normalizeModalSlug(t.req.payload.locales["pt"].title)
    [] t.req.op = "delete" -> normalizeModalSlug(t.targets[t.req.lang].project.title)
    [] OTHER -> << >>

\* the path written in place of the temporary sibling
samePathOf(absolutePath) == absolutePath

\* tempPath: the absolute path with ".tmp" appended
tempPathOf(absolutePath) ==
  [absolutePath EXCEPT ![Len(absolutePath)] = @ \o ".tmp"]

\* the locale documents after the content at absolutePath became content
ContentAt(documents, absolutePath, content) ==
  [l \in LocaleSet |->
     IF Abs(PROJECTS_FILE_BY_LOCALE[l]) = absolutePath THEN content ELSE documents[l]]

\* fs.writeFile(tempPath, body) of the next locale, awaited to its end: the
\* temporary file is in the tree, the canonical file is as it was
WriteTempStep(k) ==
  LET t == tasks[k]
      absolutePath == Abs(PROJECTS_FILE_BY_LOCALE[LOCALES[t.wi]])
      tempPath == tempPathOf(absolutePath)
  IN  /\ k \in 1..Len(tasks)
      /\ Running(k)
      /\ t.pc = "write"
      /\ files' = files \cup {tempPath}
      /\ catalog' = ContentAt(catalog, tempPath, t.projectsByLocale[LOCALES[t.wi]])
      /\ tasks' = [tasks EXCEPT ![k] = [t EXCEPT !.pc = "written"]]
      /\ UNCHANGED <<dirs, early, issued>>

\* fs.rename(tempPath, absolutePath), and what the task does next
RenameStep(k) ==
  LET t == tasks[k]
      locale == LOCALES[t.wi]
      absolutePath == Abs(PROJECTS_FILE_BY_LOCALE[locale])
      tempPath == tempPathOf(absolutePath)
      written == ContentAt(catalog, absolutePath, t.projectsByLocale[locale])
      present == (files \ {tempPath}) \cup {absolutePath}
  IN  /\ k \in 1..Len(tasks)
      /\ Running(k)
      /\ t.pc = "written"
      /\ catalog' = written
      /\ files' = present
      /\ tasks' = [tasks EXCEPT ![k] =
                     IF t.wi < Len(LOCALES) THEN [t EXCEPT !.pc = "write", !.wi = t.wi + 1]
                     ELSE IF t.req.op = "delete" THEN [t EXCEPT !.pc = "cleanup", !.wi = 0]
                     ELSE [Fulfil(t, IF t.req.op = "create" THEN 201 ELSE 200, ResponseSlug(t))
                             EXCEPT !.post = written, !.filesAfter = present]]
      /\ UNCHANGED <<dirs, early, issued>>

\* one awaited step of writeJsonFile in writeAllProjectsFiles
WriteStep(k) == WriteTempStep(k) \/ RenameStep(k)

\* referencedAssetPaths of DELETE: the paths of the targets of pt, en and es
\* in the order a Set keeps them
ReferencedAssetPaths(targetsByLocale) ==
  Distinct(collectProjectAssetPaths(targetsByLocale["pt"].project)
             \o collectProjectAssetPaths(targetsByLocale["en"].project)
             \o collectProjectAssetPaths(targetsByLocale["es"].project),
           << >>)

\* one removal of DELETE: removeAssetFileIfExists of the next referenced
\* path, then the unlink and rmdir calls of fs.rm inside
\* removeAssetDirectoryIfExists one at a time, the folder itself last; the
\* answer follows the removal of the folder, or the loop when no folder is
\* to be removed
CleanupStep(k) ==
  LET t == tasks[k]
      paths == ReferencedAssetPaths(t.targets)
      assetFolder == inferAssetFolderFromProject(t.targets[t.req.lang].project)
      entries == RemoveAssetFolder(assetFolder, files, dirs)
  IN  /\ k \in 1..Len(tasks)
      /\ Running(k)
      /\ t.pc = "cleanup"
      /\ IF t.wi < Len(paths)
         THEN /\ files' = removeAssetFileIfExists(paths[t.wi + 1], files)
              /\ dirs' = dirs
              /\ tasks' = [tasks EXCEPT ![k] = [t EXCEPT !.wi = t.wi + 1]]
         ELSE IF entries = {}
         THEN /\ files' = files
              /\ dirs' = dirs
              /\ tasks' = [tasks EXCEPT ![k] =
                             [Fulfil(t, 200, ResponseSlug(t)) EXCEPT
                                !.post = catalog, !.filesAfter = files]]
         ELSE \E q \in RemovableByRm(entries) :
                /\ files' = files \ {q}
                /\ dirs' = dirs \ {q}
                /\ tasks' = [tasks EXCEPT ![k] =
                               IF entries = {q}
                               THEN [Fulfil(t, 200, ResponseSlug(t)) EXCEPT
                                       !.post = catalog, !.filesAfter = files \ {q}]
                               ELSE [t EXCEPT !.wi = t.wi + 1]]
      /\ UNCHANGED <<catalog, early, issued>>

\* ------------------------------------------------------------------------
\* Specification
\* ------------------------------------------------------------------------

Next ==
  \/ \E q \in CreatePayloads : PostProject(q, Uploads)
  \/ \E r \in UpdateRequests : PutProject(r)
  \/ \E r \in DeleteRequests : DeleteProject(r)
  \/ \E r \in ReorderRequests : ReorderProjects(r)
  \/ \E k \in 1..MaxRequests : BeginTask(k)
  \/ \E k \in 1..MaxRequests : MaterializeStep(k)
  \/ \E k \in 1..MaxRequests : WriteStep(k)
  \/ \E k \in 1..MaxRequests : CleanupStep(k)

Spec == Init /\ [][Next]_vars

\* ------------------------------------------------------------------------
\* Properties
\* ------------------------------------------------------------------------

TaskIds == 1..Len(tasks)

Started(k) == tasks[k].st # "pending"

FulfilledOp(k, op) == tasks[k].st = "fulfilled" /\ tasks[k].req.op = op

SettledOp(k, op) == Settled(tasks[k]) /\ tasks[k].req.op = op

\* C1: at most one task passed to withWriteLock is executing at any time;
\* no step of a task runs while another task has started and not settled
C1_SingleWriter == Cardinality({k \in TaskIds : Running(k)}) <= 1

\* a task is in the middle of its catalog writes while a later one waits
C1_Witness ==
  \E j, k \in TaskIds :
    /\ j < k
    /\ Running(j) /\ tasks[j].pc = "write" /\ tasks[j].wi = 2
    /\ tasks[k].st = "pending"

HoldsTitle(localeProjects, category, title) ==
  /\ category \in DOMAIN localeProjects
  /\ \E i \in 1..Len(localeProjects[category]) :
       /\ ~IsNull(localeProjects[category][i])
       /\ localeProjects[category][i].title = Trim(title)

\* C2: tasks run in the order of the withWriteLock calls, each task reads
\* the catalogs as the task before it left them, and two creates issued
\* one after the other that both succeed are both in all three catalogs
C2_OrderedNoLostUpdate ==
  \A k \in TaskIds :
    /\ Started(k) => \A j \in 1..(k - 1) : Settled(tasks[j])
    /\ (k > 1 /\ Started(k)) => tasks[k].pre = tasks[k - 1].post
    /\ (k > 1 /\ FulfilledOp(k - 1, "create") /\ FulfilledOp(k, "create")) =>
         \A l \in LocaleSet : \A j \in {k - 1, k} :
           HoldsTitle(tasks[k].post[l], tasks[j].req.payload.category,
                      tasks[j].req.payload.locales[l].title)

\* two creates with different titles both succeeded, the second having
\* read what the first wrote
C2_Witness ==
  /\ Len(tasks) >= 2
  /\ FulfilledOp(1, "create") /\ FulfilledOp(2, "create")
  /\ tasks[1].req.payload.locales # tasks[2].req.payload.locales
  /\ tasks[2].pre # tasks[1].pre

\* C3: after a successful POST the new record is found under the returned
\* identifier in each locale document, in the category of the payload and
\* at the same index in all three
C3_CreateFoundEverywhere ==
  \A k \in TaskIds :
    FulfilledOp(k, "create") =>
      \A l \in LocaleSet :
        LET found == findProjectBySlug(tasks[k].post[l], tasks[k].slug)
            inPt == findProjectBySlug(tasks[k].post["pt"], tasks[k].slug)
        IN  /\ found.kind = "found"
            /\ inPt.kind = "found"
            /\ found.category = tasks[k].req.payload.category
            /\ found.index = inPt.index
            /\ found.project.title = Trim(tasks[k].req.payload.locales[l].title)

RecordsOf(localeProjects) ==
  SelectSeq(Entries(localeProjects), LAMBDA e : ~IsNull(e.project))

HasNullEntry(projectsByLocale) ==
  \E l \in LocaleSet : Len(RecordsOf(projectsByLocale[l])) # Len(Entries(projectsByLocale[l]))

UniqueSlugs(localeProjects) ==
  \A i, j \in 1..Len(RecordsOf(localeProjects)) :
    i < j => normalizeModalSlug(RecordsOf(localeProjects)[i].project.title)
             # normalizeModalSlug(RecordsOf(localeProjects)[j].project.title)

\* C4: starting from catalogs whose slugs are unique within each locale, no
\* locale document ever holds two records, in the same or in different
\* categories, whose titles have the same slug
C4_UniqueSlugPerLocale == \A l \in LocaleSet : UniqueSlugs(catalog[l])

\* one request changed the catalogs and another was refused for its slug
C4_Witness ==
  \E j, k \in TaskIds :
    /\ tasks[j].st = "fulfilled" /\ tasks[j].req.op \in {"create", "update"}
    /\ tasks[k].st = "rejected" /\ tasks[k].status = 409

\* some title of the payload has the slug of a record of its locale
SlugTaken(projectsByLocale, payload) ==
  \E l \in LocaleSet :
    \E i \in 1..Len(RecordsOf(projectsByLocale[l])) :
      normalizeModalSlug(RecordsOf(projectsByLocale[l])[i].project.title)
        = normalizeModalSlug(payload.locales[l].title)

\* the category is a property of every locale document, own or inherited
CategoryEverywhere(projectsByLocale, category) ==
  \A l \in LocaleSet : HasProperty(category, DOMAIN projectsByLocale[l])

C6_IdentifierStable ==
  \A k \in TaskIds :
    FulfilledOp(k, "update") =>
      LET t == tasks[k]
          found == findProjectBySlug(t.post[t.req.lang], t.req.slug)
          resolved == resolveEditTargetsByLocale(t.post, t.req.slug, t.req.lang)
      IN  /\ t.slug = normalizeModalSlug(t.req.slug)
          /\ found.kind = "found"
          /\ found.project.title = Trim(t.req.payload.locales[t.req.lang].title)
          /\ resolved.kind = "targets"
          /\ \A l \in LocaleSet :
               resolved.targets[l].project.title = Trim(t.req.payload.locales[l].title)

\* same category keys and equal list lengths in the three locales
AlignedShape(projectsByLocale) ==
  \A l \in LocaleSet :
    /\ DOMAIN projectsByLocale[l] = DOMAIN projectsByLocale[LOCALES[1]]
    /\ \A c \in DOMAIN projectsByLocale[l] :
         Len(projectsByLocale[l][c]) = Len(projectsByLocale[LOCALES[1]][c])

\* after is before without the record at (category, index)
RemovedAt(before, after, category, index) ==
  /\ category \in DOMAIN before
  /\ index \in 1..Len(before[category])
  /\ after = [before EXCEPT ![category] = Splice(@, index)]

\* C7: a successful DELETE removes exactly one record from each locale and
\* leaves the others in place; when the documents are aligned the record
\* removed is the one at the category and index of the reference locale
C7_DeleteRemovesTheProject ==
  \A k \in TaskIds :
    FulfilledOp(k, "delete") =>
      LET t == tasks[k]
          base == findProjectBySlug(t.pre[t.req.lang], t.req.slug)
      IN  /\ base.kind = "found"
          /\ \A l \in LocaleSet :
               /\ \E c \in DOMAIN t.pre[l] : \E i \in 1..Len(t.pre[l][c]) :
                    RemovedAt(t.pre[l], t.post[l], c, i)
               /\ AlignedShape(t.pre)
                    => RemovedAt(t.pre[l], t.post[l], base.category, base.index)

\* the asset paths of the records of the three documents
ReferencedBy(projectsByLocale) ==
  UNION {UNION {Range(collectProjectAssetPaths(RecordsOf(projectsByLocale[l])[i].project)) :
                  i \in 1..Len(RecordsOf(projectsByLocale[l]))} : l \in LocaleSet}

\* C8: a successful DELETE leaves on disk every file that a record of the
\* documents it wrote still references as image or in images
C8_DeleteKeepsReferencedFiles ==
  \A k \in TaskIds :
    FulfilledOp(k, "delete") =>
      \A p \in ReferencedBy(tasks[k].post) :
        Abs(p) \in tasks[k].filesBefore => Abs(p) \in tasks[k].filesAfter

\* C9: after a successful reorder the list of the category holds, in every
\* locale, at position i the record that was at the old position of
\* orderedSlugs[i], and the other categories are unchanged
C9_ReorderAllLocales ==
  \A k \in TaskIds :
    FulfilledOp(k, "reorder") =>
      LET t == tasks[k]
          baseList == t.pre[t.req.lang][t.req.category]
          currentSlugs == [i \in 1..Len(baseList) |-> normalizeModalSlug(baseList[i].title)]
      IN  /\ ~HasRepeat(currentSlugs)
          /\ Range(t.req.orderedSlugs) = Range(currentSlugs)
          /\ \A l \in LocaleSet :
               /\ DOMAIN t.post[l] = DOMAIN t.pre[l]
               /\ \A c \in DOMAIN t.pre[l] \ {t.req.category} : t.post[l][c] = t.pre[l][c]
               /\ Len(t.post[l][t.req.category]) = Len(t.req.orderedSlugs)
               /\ \A i \in 1..Len(t.req.orderedSlugs) :
                    LET old == OldIndex(currentSlugs, Len(currentSlugs), t.req.orderedSlugs[i])
                    IN  /\ old \in 1..Len(t.pre[l][t.req.category])
                        /\ t.post[l][t.req.category][i] = t.pre[l][t.req.category][old]

\* the order misses the length of the list, repeats a slug or omits the
\* slug of a record of the list
BadOrder(baseList, orderedSlugs) ==
  \/ Len(orderedSlugs) # Len(baseList)
  \/ HasRepeat(orderedSlugs)
  \/ \E i \in 1..Len(baseList) :
       /\ ~IsNull(baseList[i])
       /\ normalizeModalSlug(baseList[i].title) \notin Range(orderedSlugs)

\* C10: a reorder whose orderedSlugs has another length than the list of
\* the category in the reference locale, repeats a slug or omits the slug
\* of a record of that list is rejected with 400 and changes no document
C10_BadOrderRejected ==
  \A k \in TaskIds :
    (/\ SettledOp(k, "reorder")
     /\ CatalogFiles \subseteq tasks[k].filesBefore
     /\ tasks[k].req.category \in DOMAIN tasks[k].pre[tasks[k].req.lang]
     /\ BadOrder(tasks[k].pre[tasks[k].req.lang][tasks[k].req.category],
                 tasks[k].req.orderedSlugs))
      => /\ tasks[k].st = "rejected"
         /\ tasks[k].status = 400
         /\ tasks[k].post = tasks[k].pre

\* ------------------------------------------------------------------------
\* Paths from outside: the image query, existing references, stored paths
\* ------------------------------------------------------------------------

\* a file next to the portfolio root
OutsideFile == <<"srv", "secret">>

\* "../secret" and "assets/../../secret"
DotDotPath == <<"..", "secret">>

AssetsDotDotPath == <<"assets", "..", "..", "secret">>

\* Project1 as a catalog edited outside the server may hold it: image and
\* the first of images point out of the root
HostileProject ==
  [l \in LocaleSet |->
     [Project1[l] EXCEPT !.image = DotDotPath,
                         !.images = <<AssetsDotDotPath, GalleryOf("b1", 1)>>]]

HostileCatalog ==
  [l \in LocaleSet |-> [c \in {"web", "app"} |->
     IF c = "web" THEN <<HostileProject[l], Project2[l]>> ELSE << >>]]

InitHostile ==
  /\ catalog = HostileCatalog
  /\ files = StoredFiles \cup {OutsideFile}
  /\ dirs = StoredDirs

\* the values of the path query of GET /api/image
ImageQueryPaths ==
  {AssetsDotDotPath, DotDotPath, <<"">> \o ThumbOf("b1"), ThumbOf("zz"),
   <<"assets", "..", "..b", "x">>, <<"", "srv", "secret">>}

\* GET /api/image
GetImage(queryPath) ==
  LET relativePath == normalizeRelativeAssetPath(queryPath)
      absolutePath == resolvePortfolioPath(relativePath)
      status == IF Len(relativePath) < 2 \/ relativePath[1] # "assets" THEN 400
                ELSE IF absolutePath = Escape THEN 500
                ELSE IF ~fileExists(absolutePath, files, dirs) THEN 404
                ELSE 200
  IN  /\ issued < MaxRequests
      /\ issued' = issued + 1
      /\ early' = [op |-> "image", status |-> status, path |-> queryPath]
      /\ UNCHANGED <<catalog, files, dirs, tasks>>

\* an update that names a file out of the root as an existing gallery path
EscapePayload ==
  MakePayload("web", <<"B", "1">>, TitlesOf(Project1),
              <<ExistingEntry(DotDotPath)>>, ExistingEntry(ThumbOf("b1")))

\* a create whose asset folder is written "../B"
DotFolderPayload ==
  MakePayload("web", <<".", ".", "-", "B">>, SameTitles(tAccent),
              <<NewEntry("g1")>>, NewEntry("t1"))

PathUpdateRequests ==
  {[op |-> "update", slug |-> <<"A">>, lang |-> "pt", payload |-> q, uploads |-> Uploads] :
     q \in {EscapePayload, KeepPayload}}

PathDeleteRequests ==
  {[op |-> "delete", slug |-> <<"A">>, lang |-> "pt"]}

NextPaths ==
  \/ \E queryPath \in ImageQueryPaths : GetImage(queryPath)
  \/ PostProject(DotFolderPayload, Uploads)
  \/ \E req \in PathUpdateRequests : PutProject(req)
  \/ \E req \in PathDeleteRequests : DeleteProject(req)
  \/ \E k \in 1..MaxRequests : BeginTask(k)
  \/ \E k \in 1..MaxRequests : MaterializeStep(k)
  \/ \E k \in 1..MaxRequests : WriteStep(k)
  \/ \E k \in 1..MaxRequests : CleanupStep(k)

InitPaths == InitHostile /\ InitQueue

SpecPaths == InitPaths /\ [][NextPaths]_vars

Outside(paths) == {q \in paths : ~IsPrefix(PORTFOLIO_ROOT, q)}

\* the relative paths a request or a record of the catalogs carries
PathsInPlay ==
  ImageQueryPaths
    \cup ReferencedBy(catalog)
    \cup UNION {{tasks[k].req.payload.galleryPlan[i].path :
                   i \in {j \in 1..Len(tasks[k].req.payload.galleryPlan) :
                            tasks[k].req.payload.galleryPlan[j].kind = "existing"}} :
                k \in {j \in 1..Len(tasks) : tasks[j].req.op = "update"}}

\* C11: no file or directory outside PORTFOLIO_ROOT is created, written or
\* removed, GET /api/image sends no file from outside the root, and
\* resolvePortfolioPath gives, for every path a request or a record carries,
\* either a path equal to or under the root or what it throws
C11_InsideRoot ==
  /\ Outside(files) = {OutsideFile}
  /\ Outside(dirs) = {<<"srv">>}
  /\ (early.op = "image" /\ early.status = 200)
       => IsPrefix(PORTFOLIO_ROOT, PathResolve(normalizeRelativeAssetPath(early.path)))
  /\ \A q \in PathsInPlay :
       \/ resolvePortfolioPath(q) = Escape
       \/ IsPrefix(PORTFOLIO_ROOT, resolvePortfolioPath(q))
  /\ \A k \in TaskIds :
       FulfilledOp(k, "update") =>
         \A q \in ReferencedBy(tasks[k].post) \ ReferencedBy(tasks[k].pre) :
           IsPrefix(PORTFOLIO_ROOT, PathResolve(q))

\* the record whose paths point out of the root was deleted, its asset
\* removal ran, and an update naming the outside file was refused
C11_Witness ==
  /\ OutsideFile \in files
  /\ \E k \in TaskIds :
       /\ FulfilledOp(k, "delete")
       /\ DotDotPath \in ReferencedBy(tasks[k].pre)
       /\ DotDotPath \notin ReferencedBy(tasks[k].post)
  /\ \E k \in TaskIds :
       /\ tasks[k].st = "rejected"
       /\ tasks[k].req.op = "update"
       /\ tasks[k].req.payload = EscapePayload

\* the task is a create or an update for which materializeMediaPlan was called
Materialized(t) == t.req.op \in {"create", "update"} /\ t.media.assetFolder # ""

\* every entry of the media plan has its path, and every path is on disk
MediaInPlace(t, onDisk) ==
  /\ Len(t.media.galleryPaths) = Len(t.req.payload.galleryPlan)
  /\ t.media.thumbnailPath # << >>
  /\ \A i \in 1..Len(t.media.galleryPaths) : Abs(t.media.galleryPaths[i]) \in onDisk
  /\ Abs(t.media.thumbnailPath) \in onDisk
  /\ t.media.written \subseteq onDisk

\* C12: in create and update no catalog file is written before
\* materializeMediaPlan has returned: while a task has not passed it the
\* catalogs are as the task read them, when it writes the catalogs every
\* new file of the plan is written and every existing reference is on
\* disk, and a task whose materialization raised wrote no catalog file
C12_MediaBeforeCatalog ==
  \A k \in TaskIds :
    LET t == tasks[k]
    IN  t.req.op \in {"create", "update"} =>
          /\ (Running(k) /\ t.pc \in {"media", "saving"}) => catalog = t.pre
          /\ (Running(k) /\ t.pc \in {"write", "written"}) => MediaInPlace(t, files)
          /\ t.st = "fulfilled" => MediaInPlace(t, t.filesAfter)
          /\ t.st = "rejected" => t.post = t.pre

\* a create is writing its first catalog file after it wrote its new files,
\* and an earlier request was rejected by materializeMediaPlan
C12_Witness ==
  \E j, k \in TaskIds :
    /\ tasks[j].st = "rejected" /\ Materialized(tasks[j])
    /\ Running(k) /\ tasks[k].req.op = "create"
    /\ tasks[k].pc = "write" /\ tasks[k].wi = 1
    /\ tasks[k].media.written # {}
    /\ catalog = tasks[k].pre

\* ------------------------------------------------------------------------
\* writeJsonFile step by step, and the process stopping in between
\* ------------------------------------------------------------------------

\* fs.writeFile(tempPath, body) opens the file, which creates or empties it
OpenTempStep(k) ==
  LET t == tasks[k]
      absolutePath == Abs(PROJECTS_FILE_BY_LOCALE[LOCALES[t.wi]])
      tempPath == tempPathOf(absolutePath)
  IN  /\ k \in 1..Len(tasks)
      /\ Running(k)
      /\ t.pc = "write"
      /\ files' = files \cup {tempPath}
      /\ catalog' = ContentAt(catalog, tempPath, Partial)
      /\ tasks' = [tasks EXCEPT ![k] = [t EXCEPT !.pc = "writing"]]
      /\ UNCHANGED <<dirs, early, issued>>

\* fs.writeFile(tempPath, body) has written the body to the end
CloseTempStep(k) ==
  LET t == tasks[k]
      absolutePath == Abs(PROJECTS_FILE_BY_LOCALE[LOCALES[t.wi]])
      tempPath == tempPathOf(absolutePath)
  IN  /\ k \in 1..Len(tasks)
      /\ Running(k)
      /\ t.pc = "writing"
      /\ catalog' = ContentAt(catalog, tempPath, t.projectsByLocale[LOCALES[t.wi]])
      /\ tasks' = [tasks EXCEPT ![k] = [t EXCEPT !.pc = "written"]]
      /\ UNCHANGED <<files, dirs, early, issued>>

\* the process stops while a task is in writeAllProjectsFiles and is started
\* again: the queue is new, the disk is as it was left
Crash ==
  /\ \E k \in 1..Len(tasks) : Running(k) /\ tasks[k].pc \in {"write", "writing", "written"}
  /\ tasks' = << >>
  /\ UNCHANGED <<catalog, files, dirs, early, issued>>

AtomicReorderRequests ==
  {[op |-> "reorder", lang |-> "pt", category |-> "web", orderedSlugs |-> o] :
     o \in {<<<<"B">>, <<"a", " ">>>>, <<<<"a">>>>}}

AtomicDeleteRequests ==
  {[op |-> "delete", slug |-> <<"A">>, lang |-> "pt"],
   [op |-> "delete", slug |-> <<"c">>, lang |-> "en"]}

NextAtomic ==
  \/ \E req \in AtomicReorderRequests : ReorderProjects(req)
  \/ \E req \in AtomicDeleteRequests : DeleteProject(req)
  \/ \E k \in 1..MaxRequests : BeginTask(k)
  \/ \E k \in 1..MaxRequests : OpenTempStep(k)
  \/ \E k \in 1..MaxRequests : CloseTempStep(k)
  \/ \E k \in 1..MaxRequests : RenameStep(k)
  \/ \E k \in 1..MaxRequests : CleanupStep(k)
  \/ Crash

SpecAtomic == InitStored /\ [][NextAtomic]_vars

\* C13: at every instant of writeJsonFile, and after the process stopped at
\* any of them, each canonical catalog path exists and holds a complete
\* document: the one the writing task read or the one it writes
C13_CanonicalComplete ==
  \A l \in LocaleSet :
    /\ Abs(PROJECTS_FILE_BY_LOCALE[l]) \in files
    /\ catalog[l] # Partial
    /\ \A k \in TaskIds :
         (Running(k) /\ tasks[k].pc \in {"write", "writing", "written"})
           => catalog[l] \in {tasks[k].pre[l], tasks[k].projectsByLocale[l]}

\* the process stopped after the temporary file of en was written and
\* before its rename: the temporary file is left, en holds the old document
C13_Witness ==
  /\ tasks = << >>
  /\ issued > 0
  /\ tempPathOf(Abs(PROJECTS_FILE_BY_LOCALE["en"])) \in files
  /\ catalog["pt"] # AlignedCatalog["pt"]
  /\ catalog["en"] = AlignedCatalog["en"]

\* the number of entries of the media plan that carry a new file
NewEntries(payload) ==
  Len(SelectSeq(payload.galleryPlan, LAMBDA item : item.kind = "new"))
    + (IF payload.thumbnailPlan.kind = "new" THEN 1 ELSE 0)

\* C14: saveNewImageFile never writes to a path at which a file exists:
\* the files a create or update wrote were not on disk when its task began,
\* and a task that materialized its whole plan wrote as many distinct files
\* as the plan has new entries
C14_NoOverwrite ==
  \A k \in TaskIds :
    Materialized(tasks[k]) =>
      /\ tasks[k].media.written \cap tasks[k].filesBefore = {}
      /\ (tasks[k].st = "fulfilled" \/ tasks[k].pc \in {"write", "written"})
           => Cardinality(tasks[k].media.written) = NewEntries(tasks[k].req.payload)

\* a create into the folder of a stored project took the next free gallery
\* number and a suffixed thumbnail name
C14_Witness ==
  \E k \in TaskIds :
    /\ FulfilledOp(k, "create")
    /\ Abs(GalleryOf("b1", 1)) \in tasks[k].filesBefore
    /\ Abs(ThumbOf("b1")) \in tasks[k].filesBefore
    /\ tasks[k].media.written
         = {Abs(GalleryOf("b1", 2)), Abs(PROJECTS_THUMBS_DIR \o <<ThumbName("b1", 2)>>)}

\* ------------------------------------------------------------------------
\* Uploads in the order of their parts, media plans with several new files
\* ------------------------------------------------------------------------

UploadedFile(fileId, state) == [fileId |-> fileId, state |-> state]

\* the map by fileId, or what the code throws: a part that is no image, a
\* part without fileId, a fileId sent twice
RECURSIVE CollectFrom(_, _)
CollectFrom(allFiles, map) ==
  IF allFiles = << >> THEN [kind |-> "map", map |-> map]
  ELSE LET file == Head(allFiles)
       IN  IF file.state = "text" \/ file.fileId = "" \/ file.fileId \in DOMAIN map
           THEN createHttpError(400)
           ELSE CollectFrom(Tail(allFiles),
                            [id \in DOMAIN map \cup {file.fileId} |->
                               IF id = file.fileId THEN file.state ELSE map[id]])

collectUploadedFilesMap(filesByField) ==
  CollectFrom(filesByField.galleryFiles \o filesByField.thumbnailFiles,
              [id \in {} |-> "ok"])

\* POST /api/projects from the parts as they were uploaded
PostProjectFiles(payload, filesByField) ==
  LET collected == collectUploadedFilesMap(filesByField)
  IN  IF validatePayloadShape(payload) = {} /\ collected.kind = "error"
      THEN /\ issued < MaxRequests
           /\ issued' = issued + 1
           /\ AnswerEarly([op |-> "create"], 400)
           /\ UNCHANGED <<catalog, files, dirs>>
      ELSE PostProject(payload, IF collected.kind = "error" THEN Uploads ELSE collected.map)

\* PUT /api/projects/:slug from the parts as they were uploaded
PutProjectFiles(req, filesByField) ==
  LET collected == collectUploadedFilesMap(filesByField)
  IN  IF validatePayloadShape(req.payload) = {} /\ collected.kind = "error"
      THEN /\ issued < MaxRequests
           /\ issued' = issued + 1
           /\ AnswerEarly(req, 400)
           /\ UNCHANGED <<catalog, files, dirs>>
      ELSE PutProject([req EXCEPT !.uploads =
                         IF collected.kind = "error" THEN Uploads ELSE collected.map])

GalleryPlans ==
  {<<NewEntry("g1")>>, <<NewEntry("g1"), NewEntry("g2")>>,
   <<NewEntry("g2"), NewEntry("g1")>>,
   <<NewEntry("g3"), NewEntry("g1"), NewEntry("g2")>>}

MediaPayloads ==
  {MakePayload("web", folder, SameTitles(tAccent), plan, NewEntry("t1")) :
     folder \in {<<"c", "2">>, <<"B", "1">>}, plan \in GalleryPlans}

\* an update that moves Project1 to a new folder, keeps its gallery file
\* between two new ones
MediaUpdateRequest ==
  [op |-> "update", slug |-> <<"A">>, lang |-> "pt", uploads |-> Uploads,
   payload |-> MakePayload("web", <<"c", "2">>, TitlesOf(Project1),
                 <<NewEntry("g2"), ExistingEntry(GalleryOf("b1", 1)), NewEntry("g1")>>,
                 ExistingEntry(ThumbOf("b1")))]

\* the parts in three upload orders, and with one fileId sent twice
UploadOrders ==
  {[galleryFiles |-> g, thumbnailFiles |-> <<UploadedFile("t1", "ok")>>] :
     g \in {<<UploadedFile("g1", "ok"), UploadedFile("g2", "ok"), UploadedFile("g3", "ok")>>,
            <<UploadedFile("g3", "ok"), UploadedFile("g2", "ok"), UploadedFile("g1", "ok")>>,
            <<UploadedFile("g2", "ok"), UploadedFile("g3", "ok"), UploadedFile("g1", "ok")>>,
            <<UploadedFile("g1", "ok"), UploadedFile("g1", "ok")>>}}

NextMedia ==
  \/ \E payload \in MediaPayloads, filesByField \in UploadOrders :
       PostProjectFiles(payload, filesByField)
  \/ \E filesByField \in UploadOrders : PutProjectFiles(MediaUpdateRequest, filesByField)
  \/ \E k \in 1..MaxRequests : BeginTask(k)
  \/ \E k \in 1..MaxRequests : MaterializeStep(k)
  \/ \E k \in 1..MaxRequests : WriteStep(k)

SpecMedia == InitStored /\ [][NextMedia]_vars

\* the positions of the new entries of a gallery plan, in plan order
NewPositions(galleryPlan) ==
  SelectSeq([i \in 1..Len(galleryPlan) |-> i], LAMBDA i : galleryPlan[i].kind = "new")

GalleryDirOf(assetFolder) == Abs(PROJECTS_ASSETS_DIR \o <<assetFolder>>)

\* the gallery path with number n, spelled out
NumberedPath(assetFolder, n) ==
  PROJECTS_ASSETS_DIR \o <<assetFolder, assetFolder \o ToString(n) \o ".webp">>

\* C15: when the asset folder holds no file and the plan has N new gallery
\* entries, materialization writes exactly the N gallery files
\* <assetFolder>1.webp to <assetFolder>N.webp, and the k-th new entry of the
\* plan gets number k, in whatever order the parts were uploaded
C15_NumericNames ==
  \A k \in TaskIds :
    LET t == tasks[k]
        assetFolder == t.media.assetFolder
        positions == NewPositions(t.req.payload.galleryPlan)
    IN  (/\ Materialized(t)
         /\ t.st = "fulfilled" \/ t.pc \in {"write", "written"}
         /\ \A q \in t.filesBefore : ~IsPrefix(GalleryDirOf(assetFolder), q))
          => /\ \A n \in 1..Len(positions) :
                  t.media.galleryPaths[positions[n]] = NumberedPath(assetFolder, n)
             /\ {q \in t.media.written : IsPrefix(GalleryDirOf(assetFolder), q)}
                  = {Abs(NumberedPath(assetFolder, n)) : n \in 1..Len(positions)}

\* a create with three new gallery entries, g3 first, into an empty folder
C15_Witness ==
  \E k \in TaskIds :
    /\ FulfilledOp(k, "create")
    /\ tasks[k].media.assetFolder = "c2"
    /\ tasks[k].req.payload.galleryPlan = <<NewEntry("g3"), NewEntry("g1"), NewEntry("g2")>>
    /\ Cardinality(tasks[k].media.written) = 4

\* ------------------------------------------------------------------------
\* Reads outside the write queue
\* ------------------------------------------------------------------------

GetRequests ==
  {[op |-> "get", slug |-> <<"A">>, lang |-> "pt"],
   [op |-> "get", slug |-> <<"c">>, lang |-> "pt"]}

\* a document whose readFile has not completed
Unread == [unread |-> TRUE]

\* GET /api/projects/:slug arrives: readAllProjectsFiles starts the three
\* readFile calls, outside the write queue. early holds the request until
\* it is answered, with status 0 and the documents read so far
GetProject(req) ==
  /\ issued < MaxRequests
  /\ early.op # "get" \/ early.status # 0
  /\ issued' = issued + 1
  /\ early' = [op |-> "get", status |-> 0, req |-> req,
               documents |-> [l \in LocaleSet |-> Unread]]
  /\ UNCHANGED <<catalog, files, dirs, tasks>>

\* the readFile of one locale completes, in whatever order; a file that is
\* missing or holds no complete JSON rejects Promise.all and the request is
\* answered 500; with the third document the handler resolves and answers
ReadFileStep(locale) ==
  LET documents == [early.documents EXCEPT ![locale] = catalog[locale]]
      targetsByLocale == resolveEditTargetsByLocale(documents, early.req.slug, early.req.lang)
  IN  /\ early.op = "get"
      /\ early.status = 0
      /\ early.documents[locale] = Unread
      /\ early' = IF \/ Abs(PROJECTS_FILE_BY_LOCALE[locale]) \notin files
                     \/ catalog[locale] = Partial
                  THEN [early EXCEPT !.status = 500]
                  ELSE IF \E l \in LocaleSet : documents[l] = Unread
                       THEN [early EXCEPT !.documents = documents]
                       ELSE [early EXCEPT
                               !.documents = documents,
                               !.status = IF targetsByLocale.kind = "error"
                                          THEN targetsByLocale.status ELSE 200]
      /\ UNCHANGED <<catalog, files, dirs, tasks, issued>>

NextReads ==
  \/ \E req \in GetRequests : GetProject(req)
  \/ \E locale \in LocaleSet : ReadFileStep(locale)
  \/ \E req \in AtomicReorderRequests : ReorderProjects(req)
  \/ \E req \in AtomicDeleteRequests : DeleteProject(req)
  \/ \E k \in 1..MaxRequests : BeginTask(k)
  \/ \E k \in 1..MaxRequests : WriteStep(k)
  \/ \E k \in 1..MaxRequests : CleanupStep(k)

SpecReads == InitStored /\ [][NextReads]_vars

\* the documents as they were before the first mutation and as each task
\* found and left them
CommittedDocuments ==
  {AlignedCatalog} \cup {tasks[k].pre : k \in {j \in TaskIds : Started(j)}}
                   \cup {tasks[k].post : k \in {j \in TaskIds : Settled(tasks[j])}}
                   \cup {tasks[k].projectsByLocale : k \in {j \in TaskIds : Running(j)}}

\* C16: the three documents a GET read while mutations were queued are the
\* complete state before or the complete state after a mutation
C16_ReadsCompleteState ==
  (early.op = "get" /\ early.status \notin {0, 500}) => early.documents \in CommittedDocuments

\* ------------------------------------------------------------------------
\* The queue with tasks that reject, every task running to its end
\* ------------------------------------------------------------------------

\* an update whose plan names a gallery file that is not on disk
MissingFilePayload ==
  MakePayload("web", <<"B", "1">>, TitlesOf(Project1),
              <<ExistingEntry(GalleryOf("zz", 1))>>, ExistingEntry(ThumbOf("b1")))

QueueCreatePayloads ==
  {MakePayload(c, <<"B", "1">>, t, <<NewEntry("g1")>>, NewEntry("t1")) :
     c \in {"web", "lab"}, t \in {SameTitles(tASpace), SameTitles(tAccent)}}

QueueUpdateRequests ==
  {[op |-> "update", slug |-> <<"A">>, lang |-> "pt", payload |-> q, uploads |-> Uploads] :
     q \in {KeepPayload, MissingFilePayload}}

QueueDeleteRequests ==
  {[op |-> "delete", slug |-> <<"A">>, lang |-> "pt"],
   [op |-> "delete", slug |-> <<"c">>, lang |-> "pt"]}

NextQueue ==
  \/ \E payload \in QueueCreatePayloads : PostProject(payload, Uploads)
  \/ \E req \in QueueUpdateRequests : PutProject(req)
  \/ \E req \in QueueDeleteRequests : DeleteProject(req)
  \/ \E req \in AtomicReorderRequests : ReorderProjects(req)
  \/ \E k \in 1..MaxRequests : BeginTask(k)
  \/ \E k \in 1..MaxRequests : MaterializeStep(k)
  \/ \E k \in 1..MaxRequests : WriteStep(k)
  \/ \E k \in 1..MaxRequests : CleanupStep(k)

\* task k has a step to take: it is the ENABLED of its step actions
CanStep(k) ==
  /\ k \in 1..Len(tasks)
  /\ IF tasks[k].st = "pending" THEN PredecessorSettled(k)
     ELSE Running(k) /\ tasks[k].pc \in {"media", "saving", "write", "written", "cleanup"}

\* a step of task k: only its own step actions change its record
Advance(k) == k \in 1..Len(tasks) /\ tasks'[k] # tasks[k]

\* weak fairness of the steps of every task, WF_vars(step of k) written
\* out with CanStep as its ENABLED: each task terminates
QueueFairness ==
  \A k \in 1..MaxRequests : ([]<>(~CanStep(k))) \/ ([]<><<Advance(k)>>_vars)

SpecQueue == InitStored /\ [][NextQueue]_vars /\ QueueFairness

\* what the synchronous part of the task decides from the documents it read
OwnChecks(t) ==
  CASE t.req.op = "create" -> BeginCreate(t, t.pre).status
    [] t.req.op = "update" -> BeginUpdate(t, t.pre).status
    [] t.req.op = "delete" -> BeginDelete(t, t.pre).status
    [] t.req.op = "reorder" -> BeginReorder(t, t.pre).status

\* a task starts only after the tasks before it settled, and settles with
\* the outcome of its own checks
OwnOutcome ==
  \A k \in TaskIds :
    /\ Started(k) => \A j \in 1..(k - 1) : Settled(tasks[j])
    /\ (Settled(tasks[k]) /\ OwnChecks(tasks[k]) # Ok)
         => tasks[k].st = "rejected" /\ tasks[k].status = OwnChecks(tasks[k]).status
    /\ (Settled(tasks[k]) /\ OwnChecks(tasks[k]) = Ok /\ tasks[k].req.op \in {"delete", "reorder"})
         => tasks[k].st = "fulfilled"

\* C17: a task that rejects does not stall the queue: every enqueued task
\* starts after its predecessor settled, fulfilled or rejected, and
\* eventually settles, with the outcome of its own request and never with
\* the error of an earlier task
C17_QueueNeverStalls ==
  /\ []OwnOutcome
  /\ \A k \in 1..MaxRequests :
       (Len(tasks) >= k) ~> (Len(tasks) >= k /\ Settled(tasks[k]))

\* a task was rejected and the task enqueued after it was fulfilled
C17_Witness ==
  /\ Len(tasks) >= 2
  /\ tasks[1].st = "rejected"
  /\ tasks[2].st = "fulfilled"
  /\ tasks[2].status # tasks[1].status

\* ------------------------------------------------------------------------
\* Target resolution on catalogs whose locales differ
\* ------------------------------------------------------------------------

\* an update that gives the record a new title in pt only
SplitRetitlePayload ==
  MakePayload("web", <<"B", "1">>,
              [l \in LocaleSet |-> [title |-> IF l = "pt" THEN tAccent ELSE tB]],
              <<NewEntry("g1")>>, ExistingEntry(ThumbOf("b1")))

ResolveUpdateRequests ==
  {[op |-> "update", slug |-> <<"b">>, lang |-> "pt", payload |-> SplitRetitlePayload,
    uploads |-> Uploads],
   [op |-> "update", slug |-> tAccent, lang |-> "pt", payload |-> SplitRetitlePayload,
    uploads |-> Uploads],
   [op |-> "update", slug |-> tA, lang |-> "pt", payload |-> KeepPayload, uploads |-> Uploads]}

ResolveDeleteRequests ==
  {[op |-> "delete", slug |-> s, lang |-> l] : s \in {tA, tAccent}, l \in {"pt", "en"}}

NextResolve ==
  \/ \E req \in ResolveUpdateRequests : PutProject(req)
  \/ \E req \in ResolveDeleteRequests : DeleteProject(req)
  \/ \E req \in AtomicReorderRequests : ReorderProjects(req)
  \/ \E k \in 1..MaxRequests : BeginTask(k)
  \/ \E k \in 1..MaxRequests : MaterializeStep(k)
  \/ \E k \in 1..MaxRequests : WriteStep(k)
  \/ \E k \in 1..MaxRequests : CleanupStep(k)

InitResolve == (InitAligned \/ InitDiverged) /\ InitQueue

SpecResolve == InitResolve /\ [][NextResolve]_vars

\* the records of a document whose title normalizes to the identifier
Matching(localeProjects, slug) ==
  SelectSeq(RecordsOf(localeProjects),
            LAMBDA e : normalizeModalSlug(e.project.title) = normalizeModalSlug(slug))

PositionExists(localeProjects, category, index) ==
  category \in DOMAIN localeProjects /\ index \in 1..Len(localeProjects[category])

\* the direct match of the locale if there is one, else the record at the
\* coordinates of the reference locale's match
ExpectedTarget(localeProjects, slug, reference) ==
  LET direct == Matching(localeProjects, slug)
      found == IF direct # << >> THEN direct[1]
               ELSE [category |-> reference.category, index |-> reference.index,
                     project |-> localeProjects[reference.category][reference.index]]
  IN  [kind |-> "found", category |-> found.category, index |-> found.index,
       project |-> found.project]

Untouched(t) == t.st = "rejected" /\ t.post = t.pre /\ t.filesAfter = t.filesBefore

ResolvedAsSpecified(t) ==
  LET pre == t.pre
      slug == t.req.slug
      resolved == resolveEditTargetsByLocale(pre, slug, t.req.lang)
      references == Matching(pre[t.req.lang], slug)
      unresolvable == {l \in LocaleSet :
                         /\ Matching(pre[l], slug) = << >>
                         /\ ~PositionExists(pre[l], references[1].category, references[1].index)}
  IN  IF references = << >>
      THEN resolved = createHttpError(404) /\ t.status = 404 /\ Untouched(t)
      ELSE IF unresolvable # {}
      THEN resolved = createHttpError(409) /\ t.status = 409 /\ Untouched(t)
      ELSE resolved = [kind |-> "targets",
                       targets |-> [l \in LocaleSet |->
                                      ExpectedTarget(pre[l], slug, references[1])]]

\* C18: resolveEditTargetsByLocale fails with 404 when no record of the
\* reference locale matches the identifier; otherwise it returns for each
\* locale the direct match if there is one, else the record at the reference
\* locale's (category, index), and fails with 409 when a locale has neither;
\* a request failing so changes neither the catalogs nor the asset files
C18_ResolveContract ==
  \A k \in TaskIds :
    (SettledOp(k, "update") \/ SettledOp(k, "delete")) => ResolvedAsSpecified(tasks[k])

\* ------------------------------------------------------------------------
\* Shared fields, starting from aligned catalogs
\* ------------------------------------------------------------------------

SpecAligned == InitStored /\ [][Next]_vars

\* the fields of a record that do not depend on the locale
SharedFields(project) ==
  [image |-> project.image, initialDate |-> project.initialDate,
   compatibility |-> project.compatibility, images |-> project.images]

\* wherever two locales both hold a record at a (category, index), the
\* shared fields of the two records are equal
SharedFieldsAgree(projectsByLocale) ==
  \A l1, l2 \in LocaleSet :
    \A c \in DOMAIN projectsByLocale[l1] \cap DOMAIN projectsByLocale[l2] :
      \A i \in 1..Len(projectsByLocale[l1][c]) :
        (/\ i <= Len(projectsByLocale[l2][c])
         /\ ~IsNull(projectsByLocale[l1][c][i])
         /\ ~IsNull(projectsByLocale[l2][c][i]))
        => SharedFields(projectsByLocale[l1][c][i]) = SharedFields(projectsByLocale[l2][c][i])

\* C19: starting from aligned catalogs with identical shared fields, after
\* every successful create, update, reorder and delete the records at each
\* (category, index) of the three locales have identical shared fields
C19_SharedFieldsIdentical ==
  \A k \in TaskIds : tasks[k].st = "fulfilled" => SharedFieldsAgree(tasks[k].post)

\* ------------------------------------------------------------------------
\* Requests rejected by validation or resolution
\* ------------------------------------------------------------------------

\* the task's request names a category that some locale document does not
\* hold, collides with an identifier in use, or names a target that cannot
\* be resolved
ValidationFails(t) ==
  LET resolved == resolveEditTargetsByLocale(t.pre, t.req.slug, t.req.lang)
  IN  \/ \E l \in LocaleSet : t.req.payload.category \notin DOMAIN t.pre[l]
      \/ IF t.req.op = "create"
         THEN assertUniqueSlugForCreate(t.pre, t.req.payload) # Ok
         ELSE IF resolved.kind = "error" THEN TRUE
         ELSE assertUniqueSlugForEdit(t.pre, t.req.payload, resolved.targets) # Ok

\* C20: a create or update rejected for a category missing from a locale,
\* an identifier conflict or an unresolvable target writes no asset file
\* and leaves the three catalog files unchanged
C20_RejectedWritesNothing ==
  \A k \in TaskIds :
    (/\ SettledOp(k, "create") \/ SettledOp(k, "update")
     /\ ValidationFails(tasks[k]))
    => /\ Untouched(tasks[k])
       /\ ~Materialized(tasks[k])

\* ------------------------------------------------------------------------
\* Paths that stay inside the root
\* ------------------------------------------------------------------------

\* the relative path stays inside the root: its resolution is the root or
\* is nested under it
StaysInside(relativePath) == IsPrefix(PORTFOLIO_ROOT, PathResolve(relativePath))

\* C21: for every relative path whose resolution is the root or nested
\* under it, whatever its depth and segment names, resolvePortfolioPath
\* succeeds and returns that absolute path, which has the root as prefix
C21_InsideResolves ==
  early.op = "image" =>
    LET relativePath == normalizeRelativeAssetPath(early.path)
    IN  StaysInside(relativePath)
          => /\ resolvePortfolioPath(relativePath) # Escape
             /\ resolvePortfolioPath(relativePath) = PathResolve(relativePath)

\* ------------------------------------------------------------------------
\* Fields of the existing record that the payload does not carry
\* ------------------------------------------------------------------------

\* the record a fulfilled update wrote in a locale: in place, or pushed to
\* the end of the payload's category when the category changed
UpdatedRecord(t, l) ==
  LET target == t.targets[l]
      moved == t.post[l][t.req.payload.category]
  IN  IF target.category # t.req.payload.category
      THEN moved[Len(moved)]
      ELSE t.post[l][target.category][target.index]

\* C22: a successful PUT keeps, in every locale's record, every field of the
\* existing record that is not rebuilt from the payload and the media
\* result, with its previous value
C22_OtherFieldsKept ==
  \A k \in TaskIds :
    FulfilledOp(k, "update") =>
      \A l \in LocaleSet :
        UpdatedRecord(tasks[k], l).extra = tasks[k].targets[l].project.extra

\* ------------------------------------------------------------------------
\* Updates that resubmit the current titles
\* ------------------------------------------------------------------------

\* the titles and media Project2 has, sent back unchanged
ResubmitPayload ==
  MakePayload("web", <<"c", "1">>, TitlesOf(Project2),
              <<ExistingEntry(GalleryOf("c1", 1))>>, ExistingEntry(ThumbOf("c1")))

ResubmitRequests ==
  {[op |-> "update", slug |-> tB, lang |-> "pt", payload |-> ResubmitPayload, uploads |-> Uploads],
   [op |-> "update", slug |-> tC, lang |-> "en", payload |-> ResubmitPayload, uploads |-> Uploads],
   [op |-> "update", slug |-> tA, lang |-> "pt", payload |-> KeepPayload, uploads |-> Uploads]}

NextResubmit ==
  \/ \E req \in ResubmitRequests : PutProject(req)
  \/ \E req \in AtomicDeleteRequests : DeleteProject(req)
  \/ \E req \in AtomicReorderRequests : ReorderProjects(req)
  \/ \E k \in 1..MaxRequests : BeginTask(k)
  \/ \E k \in 1..MaxRequests : MaterializeStep(k)
  \/ \E k \in 1..MaxRequests : WriteStep(k)
  \/ \E k \in 1..MaxRequests : CleanupStep(k)

SpecResubmit == InitStored /\ [][NextResubmit]_vars

\* the payload carries, for every locale, the title the record at the
\* position of the edited record has in that locale
ResubmitsCurrentTitles(t) ==
  LET references == Matching(t.pre[t.req.lang], t.req.slug)
  IN  /\ references # << >>
      /\ \A l \in LocaleSet :
           /\ PositionExists(t.pre[l], references[1].category, references[1].index)
           /\ ~IsNull(t.pre[l][references[1].category][references[1].index])
           /\ Trim(t.req.payload.locales[l].title)
                = t.pre[l][references[1].category][references[1].index].title

\* C23: a PUT that resubmits the record's current title in every locale is
\* never rejected with 409, in any catalog state whose identifiers are
\* unique within each locale
C23_ResubmitNeverConflicts ==
  \A k \in TaskIds :
    (/\ SettledOp(k, "update")
     /\ ~HasNullEntry(tasks[k].pre)
     /\ \A l \in LocaleSet : UniqueSlugs(tasks[k].pre[l])
     /\ ResubmitsCurrentTitles(tasks[k]))
    => tasks[k].status # 409

\* ------------------------------------------------------------------------
\* Payloads with a thumbnailConfig
\* ------------------------------------------------------------------------

ModeValues == {"image", "logoColor", "video", ""}

ColorValues == {<<"#", "f", "0", "A">>, <<"r", "e", "d">>, <<" ">>}

PaddingValues == {0, 41}

ThumbnailPlans == {NewEntry("t1"), ExistingEntry(ThumbOf("b1"))}

ConfigPayloads ==
  {[category |-> "web", assetFolder |-> <<"B", "1">>, common |-> GoodCommon,
    locales |-> TitlesOf(Project1), galleryPlan |-> <<NewEntry("g1")>>,
    thumbnailPlan |-> plan,
    thumbnailConfig |-> [mode |-> mode, backgroundColor |-> color, paddingPercent |-> padding]] :
     mode \in ModeValues, color \in ColorValues, padding \in PaddingValues,
     plan \in ThumbnailPlans}

NextShape ==
  \/ \E payload \in ConfigPayloads :
       PutProject([op |-> "update", slug |-> tA, lang |-> "pt", payload |-> payload,
                   uploads |-> Uploads])
  \/ \E k \in 1..MaxRequests : BeginTask(k)
  \/ \E k \in 1..MaxRequests : MaterializeStep(k)
  \/ \E k \in 1..MaxRequests : WriteStep(k)

SpecShape == InitStored /\ [][NextShape]_vars

\* logoColor with a background that is no colour or a padding outside
\* [0, 40], or a mode that is neither image nor logoColor
ConfigMustBeRefused(payload) ==
  \/ /\ payload.thumbnailConfig.mode = "logoColor"
     /\ \/ ~MatchesHexColor(payload.thumbnailConfig.backgroundColor)
        \/ payload.thumbnailConfig.paddingPercent \notin 0..40
  \/ payload.thumbnailConfig.mode \notin {"image", "logoColor"}

\* C24: validatePayloadShape returns at least one violation for every
\* payload in logoColor mode whose backgroundColor is not a valid colour or
\* whose paddingPercent is outside [0, 40], and for every payload whose mode
\* is neither image nor logoColor: no such payload reaches the write queue
C24_BadConfigRefused ==
  \A k \in TaskIds :
    ConfigMustBeRefused(tasks[k].req.payload)
      => validatePayloadShape(tasks[k].req.payload) # {}

\* ------------------------------------------------------------------------
\* Alignment of the three documents
\* ------------------------------------------------------------------------

\* same category keys, equal list lengths, no null entry and the same
\* project at each position
Aligned(projectsByLocale) ==
  /\ AlignedShape(projectsByLocale)
  /\ ~HasNullEntry(projectsByLocale)
  /\ SharedFieldsAgree(projectsByLocale)

\* C25: starting from aligned documents, every successful create, update,
\* reorder and delete leaves them aligned, also when a title of one project
\* in one locale has the identifier of another project's title in another
C25_AlignmentKept ==
  \A k \in TaskIds :
    (tasks[k].st = "fulfilled" /\ Aligned(tasks[k].pre)) => Aligned(tasks[k].post)

\* ------------------------------------------------------------------------
\* Requests under the identifier a create returned
\* ------------------------------------------------------------------------

\* titles the shape validation accepts: trimmed, they are not empty
IdentifierTitles == {tAccent, <<"C", " ", "-", "1">>, <<"-">>, <<" ", "-", "-">>}

IdentifierPayloads ==
  {MakePayload("web", <<"B", "1">>, SameTitles(t), <<NewEntry("g1")>>, NewEntry("t1")) :
     t \in IdentifierTitles}

\* the route /api/projects/:slug matches a path whose last segment is not
\* empty
MatchesSlugRoute(slug) == slug # << >>

\* a request sent to /api/projects/<slug>: without a segment for :slug, PUT
\* and DELETE match no route and GET matches the list route /api/projects
RouteProject(req) ==
  IF MatchesSlugRoute(req.slug)
  THEN CASE req.op = "update" -> PutProject(req)
         [] req.op = "delete" -> DeleteProject(req)
         [] req.op = "get" -> GetProject(req)
  ELSE /\ issued < MaxRequests
       /\ issued' = issued + 1
       /\ early' = IF req.op = "get"
                   THEN [op |-> "list", status |-> 200, slug |-> req.slug]
                   ELSE [op |-> "no route", status |-> 404, slug |-> req.slug]
       /\ UNCHANGED <<catalog, files, dirs, tasks>>

\* the payload that sends the created record back with its own media
SameRecordPayload(t) ==
  LET record == findProjectBySlug(t.post.pt, t.slug).project
  IN  MakePayload(t.req.payload.category, t.req.payload.assetFolder, t.req.payload.locales,
                  <<ExistingEntry(record.images[1])>>, ExistingEntry(record.image))

\* update, delete and fetch under the identifier a fulfilled create returned
FollowUp(k) ==
  /\ k \in 1..Len(tasks)
  /\ FulfilledOp(k, "create")
  /\ \/ RouteProject([op |-> "update", slug |-> tasks[k].slug, lang |-> "pt",
                      payload |-> SameRecordPayload(tasks[k]), uploads |-> Uploads])
     \/ RouteProject([op |-> "delete", slug |-> tasks[k].slug, lang |-> "pt"])
     \/ RouteProject([op |-> "get", slug |-> tasks[k].slug, lang |-> "pt"])

NextIdentifier ==
  \/ \E payload \in IdentifierPayloads : PostProject(payload, Uploads)
  \/ \E k \in 1..MaxRequests : FollowUp(k)
  \/ \E locale \in LocaleSet : ReadFileStep(locale)
  \/ \E k \in 1..MaxRequests : BeginTask(k)
  \/ \E k \in 1..MaxRequests : MaterializeStep(k)
  \/ \E k \in 1..MaxRequests : WriteStep(k)
  \/ \E k \in 1..MaxRequests : CleanupStep(k)

SpecIdentifier == InitStored /\ [][NextIdentifier]_vars

\* C26: normalizeModalSlug leaves its own output unchanged, the identifier
\* of a created record resolves through findProjectBySlug to that record,
\* and the record can be fetched, updated and deleted under the identifier
\* the create returned
C26_IdentifierRoundTrip ==
  /\ \A t \in IdentifierTitles :
       normalizeModalSlug(normalizeModalSlug(t)) = normalizeModalSlug(t)
  /\ \A k \in TaskIds :
       FulfilledOp(k, "create") =>
         LET found == findProjectBySlug(tasks[k].post.pt, tasks[k].slug)
         IN  /\ tasks[k].slug = normalizeModalSlug(tasks[k].req.payload.locales.pt.title)
             /\ found.kind = "found"
             /\ found.project.title = Trim(tasks[k].req.payload.locales.pt.title)
  /\ \A k \in TaskIds :
       (SettledOp(k, "update") \/ SettledOp(k, "delete")) => tasks[k].st = "fulfilled"
  /\ early.op \in {"none", "get"}
  /\ early.op = "get" => early.status \in {0, 200}

\* ------------------------------------------------------------------------
\* Reorder on lists of any length
\* ------------------------------------------------------------------------

Occurrences(list, x) == Cardinality({i \in 1..Len(list) : list[i] = x})

\* after holds the elements of before, each as many times, and no null
IsPermutation(before, after) ==
  /\ Len(after) = Len(before)
  /\ \A i \in 1..Len(after) : ~IsNull(after[i]) \/ Occurrences(before, Null) > 0
  /\ \A i \in 1..Len(before) : Occurrences(after, before[i]) = Occurrences(before, before[i])

\* C27: a successful reorder never loses, duplicates or nulls a record: in
\* every locale the list of the category after the reorder is a permutation
\* of the list before it, also when the lists of the locales differ in length
C27_ReorderPermutes ==
  \A k \in TaskIds :
    FulfilledOp(k, "reorder") =>
      \A l \in LocaleSet :
        IsPermutation(tasks[k].pre[l][tasks[k].req.category],
                      tasks[k].post[l][tasks[k].req.category])

\* ------------------------------------------------------------------------
\* What DELETE removes
\* ------------------------------------------------------------------------

\* an update of Project1 whose thumbnail is the pt catalog file, a file of
\* the root that exists
CatalogRefPayload ==
  MakePayload("web", <<"B", "1">>, TitlesOf(Project1),
              <<ExistingEntry(GalleryOf("b1", 1))>>,
              ExistingEntry(PROJECTS_FILE_BY_LOCALE["pt"]))

\* "assets/images/projects/../projects/b1/<first gallery file>"
ParentFolderPath ==
  PROJECTS_ASSETS_DIR \o <<"..", "projects", "b1", GalleryName("b1", 1)>>

\* an update of Project1 whose gallery names its own file through ".."
ParentFolderPayload ==
  MakePayload("web", <<"B", "1">>, TitlesOf(Project1),
              <<ExistingEntry(ParentFolderPath)>>, ExistingEntry(ThumbOf("b1")))

RemovalUpdateRequests ==
  {[op |-> "update", slug |-> <<"A">>, lang |-> "pt", payload |-> q, uploads |-> Uploads] :
     q \in {CatalogRefPayload, ParentFolderPayload, KeepPayload}}

RemovalDeleteRequests ==
  {[op |-> "delete", slug |-> s, lang |-> "pt"] : s \in {<<"A">>, <<"b">>}}

NextRemoval ==
  \/ \E req \in RemovalUpdateRequests : PutProject(req)
  \/ \E req \in RemovalDeleteRequests : DeleteProject(req)
  \/ \E k \in 1..MaxRequests : BeginTask(k)
  \/ \E k \in 1..MaxRequests : MaterializeStep(k)
  \/ \E k \in 1..MaxRequests : WriteStep(k)
  \/ \E k \in 1..MaxRequests : CleanupStep(k)

InitRemoval == (InitAligned \/ InitHostile) /\ InitQueue

SpecRemoval == InitRemoval /\ [][NextRemoval]_vars

\* the directories of PROJECTS_ASSETS_DIR a DELETE may remove: its direct
\* children other than thumbs
RemovableDirs ==
  {d \in StoredDirs : /\ Len(d) = Len(Abs(PROJECTS_ASSETS_DIR)) + 1
                      /\ IsPrefix(Abs(PROJECTS_ASSETS_DIR), d)
                      /\ d # Abs(PROJECTS_THUMBS_DIR)}

\* the files the paths of the removed records name
OwnImageFiles(t) ==
  {PathResolve(q) : q \in Range(ReferencedAssetPaths(t.targets))}

RemovedOnlyOwn(t) ==
  \E allowed \in SUBSET RemovableDirs :
    /\ Cardinality(allowed) <= 1
    /\ \A q \in t.filesBefore \ t.filesAfter :
         \/ q \in OwnImageFiles(t) /\ q \notin CatalogFiles
         \/ \E d \in allowed : IsPrefix(d, q)

\* C28: DELETE removes only image files of the deleted project and at most
\* one directory, a direct child of PROJECTS_ASSETS_DIR other than thumbs;
\* no locale catalog file, PROJECTS_ASSETS_DIR or an ancestor of it is ever
\* removed, whatever image paths the record holds
C28_DeleteRemovesOnlyOwn ==
  /\ CatalogFiles \subseteq files
  /\ \A d \in StoredDirs \ dirs : \E r \in RemovableDirs : IsPrefix(r, d)
  /\ Cardinality(RemovableDirs \ dirs)
       <= Cardinality({k \in TaskIds : FulfilledOp(k, "delete")})
  /\ \A k \in TaskIds : FulfilledOp(k, "delete") => RemovedOnlyOwn(tasks[k])

\* ------------------------------------------------------------------------
\* The three locale files as one unit
\* ------------------------------------------------------------------------

\* a task is inside writeAllProjectsFiles: the points at which the process
\* may stop during it
InWriteAll(k) == Running(k) /\ tasks[k].pc \in {"write", "writing", "written"}

\* C29: at whatever point of writeAllProjectsFiles the process stops, the
\* three canonical locale files hold either all the documents the task read
\* or all the documents it writes, never the new document in some locales
\* and the old one in the others
C29_AllLocalesOrNone ==
  \A k \in TaskIds :
    InWriteAll(k) =>
      \/ catalog = tasks[k].pre
      \/ catalog = tasks[k].projectsByLocale

\* ------------------------------------------------------------------------
\* Media plans that fail after a file was written
\* ------------------------------------------------------------------------

\* creates whose gallery starts with a new file and then names an upload
\* that was not sent or an existing path, one whose plan is complete, and
\* one whose assetFolder normalizes to "thumbs"
FailingCreatePayloads ==
  {MakePayload("web", <<"c", "2">>, SameTitles(tAccent), plan, NewEntry("t1")) :
     plan \in {<<NewEntry("g1"), NewEntry("g9")>>,
               <<NewEntry("g1"), ExistingEntry(GalleryOf("b1", 1))>>,
               <<NewEntry("g1")>>}}
    \cup {MakePayload("web", <<"T", "h", "u", "m", "b", "s">>, SameTitles(tAccent),
                     <<NewEntry("g1")>>, NewEntry("t1"))}

\* the uploads as sent, and with a thumbnail that is no readable image
FailingUploads ==
  {Uploads, [id \in {"g1", "t1"} |-> IF id = "t1" THEN "corrupt" ELSE "ok"]}

\* updates of Project1 whose gallery starts with a new file and then names
\* a file that does not exist, or keeps the stored one
FailingUpdateRequests ==
  {[op |-> "update", slug |-> <<"A">>, lang |-> "pt", uploads |-> Uploads,
    payload |-> MakePayload("web", <<"B", "1">>, TitlesOf(Project1),
                            <<NewEntry("g1"), ExistingEntry(q)>>,
                            ExistingEntry(ThumbOf("b1")))] :
     q \in {GalleryOf("zz", 1), GalleryOf("b1", 1)}}

NextRollback ==
  \/ \E payload \in FailingCreatePayloads, uploads \in FailingUploads :
       PostProject(payload, uploads)
  \/ \E req \in FailingUpdateRequests : PutProject(req)
  \/ \E k \in 1..MaxRequests : BeginTask(k)
  \/ \E k \in 1..MaxRequests : MaterializeStep(k)
  \/ \E k \in 1..MaxRequests : WriteStep(k)

SpecRollback == InitStored /\ [][NextRollback]_vars

\* the task was rejected by what materializeMediaPlan threw
FailedInMedia(t) ==
  /\ t.st = "rejected"
  /\ t.req.op \in {"create", "update"}
  /\ t.media # NoMedia

\* C30: a create or update that fails during media materialization leaves
\* the asset tree as it was before the request: no file written earlier in
\* the same request remains on disk
C30_FailedMediaLeavesNoFile ==
  \A k \in TaskIds :
    FailedInMedia(tasks[k]) => tasks[k].filesAfter = tasks[k].filesBefore

====
